---- MODULE Spec2Model ----
(***************************************************************************)
(* State-machine model of pyaedt's Icepak facade (src/pyaedt/icepak.py):   *)
(* the thermal network builder (Icepak.BoundaryNetwork with its _Node and  *)
(* _Link classes), the registry of networks kept by the Icepak object, the *)
(* calls sent to the host application (AEDT), and the facade's list of     *)
(* boundaries.                                                             *)
(*                                                                         *)
(* Python values are modelled as tagged records so that isinstance tests   *)
(* and str(x) + unit conversions are computed, not assumed:                *)
(*   None            [t |-> "none"]                                        *)
(*   a number 2      [t |-> "num", v |-> "2"]                              *)
(*   a string "2mm"  [t |-> "str", v |-> "2", u |-> "mm"]                  *)
(* A string is kept as its leading text v and its trailing text u, which   *)
(* is what decompose_variable_value splits it into.                        *)
(***************************************************************************)
EXTENDS Integers, Sequences, FiniteSets, TLC

\* ------------------------------------------------------------------ bounds
MaxNets == 2        \* network objects constructed
MaxSteps == 4       \* operations called on the Icepak object and its networks

\* ----------------------------------------------------------- Python values
None == [t |-> "none"]
Num(b) == [t |-> "num", v |-> b]
Str(b, u) == [t |-> "str", v |-> b, u |-> u]
S(x) == Str(x, "")

IsNone(x) == x.t = "none"
IsStr(x) == x.t = "str"
IsNum(x) == x.t = "num"

\* str(x)
PyStr(x) ==
    IF IsStr(x) THEN x.v \o x.u
    ELSE IF IsNum(x) THEN x.v
    ELSE "None"

\* str(x) + unit
PlusUnit(x, unit) == Str(PyStr(x), unit)

\* the texts that read as a number
NumBodies == {ToString(i) : i \in 0..9} \cup {"0.5", "0.001", "25", "1000"}

\* decompose_variable_value(value): the numeric head and the unit that follows
\* it; a value that does not start with a number has no unit.
decompose_variable_value(value) ==
    IF IsStr(value) /\ value.v \in NumBodies THEN <<value.v, value.u>>
    ELSE <<PyStr(value), "">>

\* ------------------------------------------------- dictionaries, in order
\* A Python dict is a sequence of <<key, value>> pairs in insertion order.
DictKeys(d) == {d[i][1] : i \in DOMAIN d}
DictIndex(d, k) == CHOOSE i \in DOMAIN d : d[i][1] = k
DictGet(d, k) == d[DictIndex(d, k)][2]
\* d.update({k: v}): a present key keeps its place
DictUpdate(d, k, v) ==
    IF k \in DictKeys(d)
    THEN [i \in DOMAIN d |-> IF d[i][1] = k THEN <<k, v>> ELSE d[i]]
    ELSE Append(d, <<k, v>>)
RemoveAt(s, i) == SubSeq(s, 1, i - 1) \o SubSeq(s, i + 1, Len(s))
\* d.pop(k), for a key that is present
DictPop(d, k) == RemoveAt(d, DictIndex(d, k))

\* a dict keyed by fixed field names is a function; f[k] = v added or replaced
Put(f, k, v) == [x \in DOMAIN f \cup {k} |-> IF x = k THEN v ELSE f[x]]
EmptyDict == << >>

\* ------------------------------------------------------------------ state
VARIABLES
    nets,               \* the BoundaryNetwork objects constructed so far
    _thermal_networks,  \* Icepak._thermal_networks: the networks registered, by index in nets
    boundaries,         \* Icepak.boundaries: the boundary objects cached by the facade
    calls,              \* the calls sent to the host so far, in order
    last,               \* the operation called last: its arguments, exception and result
    steps,              \* the number of operations called so far
    design,             \* the host design: its solution type and the solve_inside of its objects
    files,              \* the paths of the files that exist on disk
    xml,                \* the XML elements the caller holds, each with its subtree
    mesh                \* the mesher run of generate_fluent_mesh: where the call stands

vars == <<nets, _thermal_networks, boundaries, calls, last, steps, design, files, xml, mesh>>

\* ---------------------------------------------- variation dictionaries
IsDict(x) == x.t = "dict"
Bool(b) == [t |-> "bool", v |-> b]
List(s) == [t |-> "list", v |-> s]
Dict(f) == [t |-> "dict", v |-> f]
IsList(x) == x.t = "list"
IsBool(x) == x.t = "bool"

\* bool(x)
Truthy(x) ==
    IF IsNone(x) THEN FALSE
    ELSE IF IsBool(x) THEN x.v
    ELSE IF IsNum(x) THEN x.v # "0"
    ELSE IF IsStr(x) THEN PyStr(x) # ""
    ELSE IF IsList(x) THEN x.v # << >>
    ELSE DOMAIN x.v # {}

\* x == text, for a value x
IsText(x, text) == IsStr(x) /\ PyStr(x) = text

\* a dict built by assigning the pairs in order: the last value of a key stays
Props(pairs) ==
    [k \in {pairs[i][1] : i \in DOMAIN pairs} |->
        pairs[CHOOSE i \in DOMAIN pairs :
                 pairs[i][1] = k /\ \A j \in DOMAIN pairs : pairs[j][1] = k => j <= i][2]]

\* ", ".join(items), each item between the quote marks q
RECURSIVE Join(_, _)
Join(items, q) ==
    IF items = << >> THEN ""
    ELSE IF Len(items) = 1 THEN q \o items[1] \o q
    ELSE q \o items[1] \o q \o ", " \o Join(Tail(items), q)

\* _parse_variation_data, the value of a piecewise linear function
PwlItems(variation_value) ==
    IF ~IsList(variation_value)
    THEN <<"1", "pwl(" \o PyStr(variation_value) \o ",Temp)">>
    ELSE <<variation_value.v[1], "pwl(" \o variation_value.v[2] \o ",Temp)">>

\* _parse_variation_data, out_dict; a variation_value that is given for another
\* function than piecewise linear is a list
VariationDict(variation_type, variation_value, function) ==
    IF function = "Piecewise Linear"
    THEN Props(<< <<"Variation Type", S(variation_type)>>, <<"Variation Function", S(function)>>,
                  <<"Variation Value", S("[" \o Join(PwlItems(variation_value), "\"") \o "]")>> >>)
    ELSE IF ~IsNone(variation_value)
    THEN Props(<< <<"Variation Type", S(variation_type)>>, <<"Variation Function", S(function)>>,
                  <<"Variation Value", S("[" \o Join(variation_value.v, "") \o "]")>> >>)
    ELSE Props(<< <<"Variation Type", S(variation_type)>>, <<"Variation Function", S(function)>> >>)

\* Icepak._parse_variation_data: none is TRUE when None is returned, else pairs
\* holds the one entry of the dictionary returned
_parse_variation_data(quantity, variation_type, variation_value, function) ==
    IF variation_type = "Transient" /\ design.solution_type = "SteadyState"
    THEN [none |-> TRUE, pairs |-> << >>]
    ELSE IF variation_type = "Temp Dep" /\ function # "Piecewise Linear"
    THEN [none |-> TRUE, pairs |-> << >>]
    ELSE [none |-> FALSE,
          pairs |-> << <<quantity \o " Variation Data",
                         Dict(VariationDict(variation_type, variation_value, function))>> >>]

\* _parse_variation_data called with the entries of the dictionary d
ParseDict(quantity, d) ==
    _parse_variation_data(quantity, d.v["Type"], d.v["Values"], d.v["Function"])

\* the outcome of a call: the object as the call left it, the exception that
\* left the call ("" when it returned) and what it returned
\* ("obj" for an object, else the text of the value)
Ok(net, ret) == [net |-> net, exc |-> "", ret |-> ret]
Raise(net, e) == [net |-> net, exc |-> e, ret |-> "None"]

\* ------------------------------------------------------------------ _Node
face_node_default_dict ==
    [FaceID |-> None, ThermalResistance |-> S("NoResistance"),
     Thickness |-> Str("1", "mm"), Material |-> S("Al-Extruded"),
     Resistance |-> Str("0", "cel_per_w")]
boundary_node_default_dict ==
    [NodeType |-> S("BoundaryNode"), ValueType |-> Str("Power", "Value"),
     Power |-> Str("0", "W"), Temperature |-> Str("25", "cel")]
internal_node_default_dict ==
    [NodeType |-> S("InternalNode"), Power |-> Str("0", "W"),
     Mass |-> Str("0.001", "kg"), SpecificHeat |-> Str("1000", "J_per_Kelkg")]

NodeDefaults(node_type) ==
    IF node_type = "InternalNode" THEN internal_node_default_dict
    ELSE IF node_type = "FaceNode" THEN face_node_default_dict
    ELSE boundary_node_default_dict

\* _create_node_dict, the loop over the properties given: a plain value
\* replaces the default, a variation dictionary is parsed and its entry
\* replaces the default.  node_args.pop(k) raises KeyError for a key without
\* a default and node_args.update(None) raises TypeError.
NodeArgs(default_dict, node_dict) ==
    IF \E k \in DOMAIN node_dict : IsDict(node_dict[k]) /\ k \notin DOMAIN default_dict
    THEN [exc |-> "KeyError", props |-> default_dict]
    ELSE IF \E k \in DOMAIN node_dict : IsDict(node_dict[k]) /\ ParseDict(k, node_dict[k]).none
    THEN [exc |-> "TypeError", props |-> default_dict]
    ELSE [exc |-> "",
          props |-> [x \in {k \in DOMAIN default_dict \cup DOMAIN node_dict :
                               k \notin DOMAIN node_dict \/ ~IsDict(node_dict[k])}
                           \cup {k \o " Variation Data" :
                                    k \in {y \in DOMAIN node_dict : IsDict(node_dict[y])}} |->
                        IF x \in DOMAIN node_dict /\ ~IsDict(node_dict[x]) THEN node_dict[x]
                        ELSE IF \E k \in DOMAIN node_dict :
                                   IsDict(node_dict[k]) /\ x = k \o " Variation Data"
                        THEN ParseDict(CHOOSE k \in DOMAIN node_dict :
                                          IsDict(node_dict[k]) /\ x = k \o " Variation Data",
                                       node_dict[CHOOSE k \in DOMAIN node_dict :
                                          IsDict(node_dict[k]) /\ x = k \o " Variation Data"])
                                .pairs[1][2]
                        ELSE default_dict[x]]]

\* _Node.__init__ with _node_props and _create_node_dict: the node's name and
\* the defaults overlaid with the properties given.  exc is "KeyError" when the
\* name is empty and the properties hold no FaceID.
NewNode(name, node_type, props) ==
    LET node_name == IF "Name" \in DOMAIN props THEN props["Name"] ELSE name
        falsy == IsNone(node_name) \/ PyStr(node_name) = ""
        given == [k \in DOMAIN props \ {"Name"} |-> props[k]]
        args == NodeArgs(NodeDefaults(node_type), IF falsy THEN props ELSE given)
    IN  IF falsy /\ "FaceID" \notin DOMAIN props
        THEN [exc |-> "KeyError", node |-> None]
        ELSE IF args.exc # ""
        THEN [exc |-> args.exc, node |-> None]
        ELSE [exc |-> "",
              node |-> [name |-> IF falsy THEN "Face" \o PyStr(props["FaceID"])
                                 ELSE PyStr(node_name),
                        node_type |-> node_type,
                        props |-> args.props]]

\* _add_to_props: props[type_dict].update({name: props}), or a new dictionary
\* when the key is missing
_add_to_props(props, name, value, type_dict) ==
    IF type_dict \in DOMAIN props
    THEN Put(props, type_dict, DictUpdate(props[type_dict], name, value))
    ELSE Put(props, type_dict, <<<<name, value>>>>)

\* the three lines that end every add_*_node: the node built is appended to
\* _nodes and entered in props["Nodes"]
AppendBuilt(net, n) ==
    IF n.exc # "" THEN Raise(net, n.exc)
    ELSE Ok([net EXCEPT !._nodes = Append(@, n.node),
                        !.props = _add_to_props(@, n.node.name, n.node.props, "Nodes")],
            "obj")

AppendNode(net, name, node_type, props_dict) ==
    AppendBuilt(net, NewNode(name, node_type, props_dict))

\* ------------------------------------------------ BoundaryNetwork: nodes
\* value if it is None, else key: value added to the dictionary d
PutUnlessNone(d, key, value, normal) ==
    IF IsNone(value) THEN d ELSE Put(d, key, normal)

add_internal_node(net, name, power, mass, specific_heat) ==
    AppendNode(net, name, "InternalNode",
        PutUnlessNone(
            PutUnlessNone([k \in {"Power"} |-> IF IsNum(power) THEN PlusUnit(power, "W")
                                               ELSE power],
                          "Mass", mass,
                          IF IsNum(mass) THEN PlusUnit(mass, "kg") ELSE mass),
            "SpecificHeat", specific_heat,
            IF IsNum(specific_heat) THEN PlusUnit(specific_heat, "J_per_Kelkg")
            ELSE specific_heat))

\* add_boundary_node, value normalisation: a number gets the unit of the type
BoundaryValue(ty, value) ==
    IF IsNum(value)
    THEN (IF ty = "Power" THEN PlusUnit(value, "W") ELSE PlusUnit(value, "cel"))
    ELSE value

\* add_boundary_node without the two checks of its arguments
add_boundary_node_unchecked(net, name, assignment_type, value) ==
    AppendNode(net, name, "BoundaryNode",
               Put([k \in {"ValueType"} |-> Str(PyStr(assignment_type), "Value")],
                   PyStr(assignment_type), BoundaryValue(PyStr(assignment_type), value)))

add_boundary_node(net, name, assignment_type, value) ==
    IF PyStr(assignment_type) \notin {"Power", "Temperature"}
    THEN Raise(net, "AttributeError")
    ELSE IF IsDict(BoundaryValue(PyStr(assignment_type), value))
            /\ PyStr(assignment_type) = "Temperature"
    THEN Raise(net, "AttributeError")
    ELSE AppendNode(net, name, "BoundaryNode",
                    Put([k \in {"ValueType"} |-> Str(PyStr(assignment_type), "Value")],
                        PyStr(assignment_type),
                        BoundaryValue(PyStr(assignment_type), value)))

\* the branch of add_face_node for thermal_resistance = "Compute"
ComputeBranch(props_dict, thermal_resistance, material, thickness) ==
    IF ~IsNone(material) \/ ~IsNone(thickness)
    THEN [exc |-> "",
          d |-> Put(Put(Put(props_dict, "ThermalResistance", thermal_resistance),
                        "Material", material),
                    "Thickness",
                    IF ~IsStr(thickness) THEN PlusUnit(thickness, "mm") ELSE thickness)]
    ELSE [exc |-> "AttributeError", d |-> props_dict]

\* the branch of add_face_node for thermal_resistance = "Specified"
SpecifiedBranch(props_dict, thermal_resistance, resistance) ==
    IF ~IsNone(resistance)
    THEN [exc |-> "",
          d |-> Put(Put(props_dict, "ThermalResistance", thermal_resistance),
                    "Resistance",
                    IF ~IsStr(resistance) THEN PlusUnit(resistance, "cel_per_w")
                    ELSE resistance)]
    ELSE [exc |-> "AttributeError", d |-> props_dict]

\* add_face_node, first test: thermal_resistance == "Compute"
FaceCompute(props_dict, thermal_resistance, material, thickness) ==
    IF ~IsNone(thermal_resistance) /\ PyStr(thermal_resistance) = "Compute"
    THEN ComputeBranch(props_dict, thermal_resistance, material, thickness)
    ELSE [exc |-> "", d |-> props_dict]

\* add_face_node, second test: thermal_resistance == "Specified"
FaceSpecified(b, thermal_resistance, resistance) ==
    IF b.exc = "" /\ ~IsNone(thermal_resistance) /\ PyStr(thermal_resistance) = "Specified"
    THEN SpecifiedBranch(b.d, thermal_resistance, resistance)
    ELSE b

\* add_face_node, the end: the default name and the node
FaceAppend(net, face_id, name, b) ==
    IF b.exc # "" THEN Raise(net, b.exc)
    ELSE AppendNode(net, IF IsNone(name) THEN S("FaceID" \o PyStr(face_id)) ELSE name,
                    "FaceNode", b.d)

add_face_node(net, face_id, name, thermal_resistance, material, thickness, resistance) ==
    FaceAppend(net, face_id, name,
               FaceSpecified(FaceCompute([k \in {"FaceID"} |-> face_id], thermal_resistance,
                                         material, thickness),
                             thermal_resistance, resistance))

\* node_dict.get(k, None)
Get(node_dict, k) == IF k \in DOMAIN node_dict THEN node_dict[k] ELSE None

\* one entry of add_nodes_from_dictionaries: the add_* call its keys select
AddNodeFromDict(net, node_dict) ==
    IF "FaceID" \in DOMAIN node_dict
    THEN add_face_node(net, node_dict["FaceID"], Get(node_dict, "Name"),
                       Get(node_dict, "ThermalResistance"), Get(node_dict, "Material"),
                       Get(node_dict, "Thickness"), Get(node_dict, "Resistance"))
    ELSE IF "ValueType" \in DOMAIN node_dict
    THEN IF "Name" \notin DOMAIN node_dict
            \/ PyStr(node_dict["ValueType"]) \notin DOMAIN node_dict
         THEN Raise(net, "KeyError")
         ELSE add_boundary_node(net, node_dict["Name"], node_dict["ValueType"],
                                node_dict[PyStr(node_dict["ValueType"])])
    ELSE IF "Name" \notin DOMAIN node_dict THEN Raise(net, "KeyError")
    ELSE add_internal_node(net, node_dict["Name"], Get(node_dict, "Power"),
                           Get(node_dict, "Mass"), Get(node_dict, "SpecificHeat"))

RECURSIVE add_nodes_from_dictionaries(_, _)
\* the loop of add_nodes_from_dictionaries after one entry: an exception ends it
NodesDictNext(r, rest) ==
    IF r.exc # "" THEN r ELSE add_nodes_from_dictionaries(r.net, rest)

add_nodes_from_dictionaries(net, nodes_dict) ==
    IF nodes_dict = << >> THEN Ok(net, "True")
    ELSE NodesDictNext(AddNodeFromDict(net, Head(nodes_dict)), Tail(nodes_dict))

\* _Node.delete_node of the i-th node of _nodes
delete_node(net, i) ==
    IF "Nodes" \notin DOMAIN net.props
       \/ net._nodes[i].name \notin DictKeys(net.props["Nodes"])
    THEN Raise(net, "KeyError")
    ELSE Ok([net EXCEPT !.props = Put(@, "Nodes", DictPop(@["Nodes"], net._nodes[i].name)),
                        !._nodes = RemoveAt(@, i)], "None")

\* ------------------------------------------------ BoundaryNetwork: links
unit2type_conversion ==
    [u \in {"g_per_s", "kg_per_s", "lbm_per_min", "lbm_per_s"} |-> <<"C-Link", "Node1ToNode2">>]
    @@ [u \in {"Kel_per_W", "cel_per_w", "FahSec_per_btu", "Kels_per_J"} |-> <<"R-Link", "R">>]
    @@ [u \in {"w_per_m2kel", "w_per_m2Cel", "btu_per_rankHrFt2", "btu_per_fahHrFt2",
               "btu_per_rankSecFt2", "btu_per_fahSecFt2", "w_per_cm2kel"} |-> <<"R-Link", "HTC">>]

\* _Link.__init__, a node reference: a face id becomes the name of its face node
NodeRef(node) == IF ~IsStr(node) THEN "FaceID" \o PyStr(node) ELSE PyStr(node)

\* _Link.__init__
NewLink(node_1, node_2, value, name) ==
    [name |-> name,
     node_1 |-> NodeRef(node_1),
     node_2 |-> IF ~IsStr(value) THEN NodeRef(node_2) \o "cel_per_w" ELSE NodeRef(node_2),
     value |-> value]

\* _Link.link_type: the entry of the table for the unit of the value;
\* <<>> stands for the KeyError of a unit the table does not hold
link_type(link) ==
    IF decompose_variable_value(link.value)[2] \in DOMAIN unit2type_conversion
    THEN unit2type_conversion[decompose_variable_value(link.value)[2]]
    ELSE << >>

\* _Link.props
LinkProps(link) == <<link.node_1, link.node_2>> \o link_type(link) \o <<link.value>>

\* add_link without the normalisation of the value
LinkValueKept(value) == value

\* add_link, value normalisation (the first two lines of the body)
LinkValue(value) == IF ~IsStr(value) THEN PlusUnit(value, "cel_per_w") ELSE value

\* add_link, the last three lines: the link is appended to _links and then
\* entered in props["Links"], where reading its props may raise
AppendLink(net, new_link) ==
    IF link_type(new_link) = << >>
    THEN Raise([net EXCEPT !._links = Append(@, new_link)], "KeyError")
    ELSE Ok([net EXCEPT !._links = Append(@, new_link),
                        !.props = _add_to_props(@, new_link.name, LinkProps(new_link), "Links")],
            "True")

\* add_link once the name is known (a string)
AddLinkNamed(net, node1, node2, value, name) ==
    AppendLink(net, NewLink(node1, node2, LinkValue(value), name))

\* _Link.delete_link of the i-th link of _links
delete_link(net, i) ==
    IF "Links" \notin DOMAIN net.props
       \/ net._links[i].name \notin DictKeys(net.props["Links"])
    THEN Raise(net, "KeyError")
    ELSE Ok([net EXCEPT !.props = Put(@, "Links", DictPop(@["Links"], net._links[i].name)),
                        !._links = RemoveAt(@, i)], "None")

\* ------------------------------------- BoundaryNetwork._update_from_props
\* the face-node branch: which of Resistance or Thickness and Material is read
\* depends on ThermalResistance
AddFaceFromProps(net, node_name, node_dict) ==
    IF "ThermalResistance" \notin DOMAIN node_dict \/ "FaceID" \notin DOMAIN node_dict
    THEN Raise(net, "KeyError")
    ELSE IF PyStr(node_dict["ThermalResistance"]) \in {"NoResistance", "Specified"}
    THEN IF "Resistance" \notin DOMAIN node_dict THEN Raise(net, "KeyError")
         ELSE add_face_node(net, node_dict["FaceID"], S(node_name),
                            node_dict["ThermalResistance"], None, None,
                            node_dict["Resistance"])
    ELSE IF "Thickness" \notin DOMAIN node_dict \/ "Material" \notin DOMAIN node_dict
    THEN Raise(net, "KeyError")
    ELSE add_face_node(net, node_dict["FaceID"], S(node_name),
                       node_dict["ThermalResistance"], node_dict["Material"],
                       node_dict["Thickness"], None)

\* the add_* call that _update_from_props makes for one entry of props["Nodes"]
AddFromNodeProps(net, node_name, node_dict) ==
    IF PyStr(Get(node_dict, "NodeType")) = "InternalNode"
    THEN add_internal_node(net, S(node_name),
                           IF "Power" \in DOMAIN node_dict THEN node_dict["Power"]
                           ELSE Get(node_dict, "Power Variation Data"),
                           Get(node_dict, "Mass"), Get(node_dict, "SpecificHeat"))
    ELSE IF PyStr(Get(node_dict, "NodeType")) = "BoundaryNode"
    THEN IF "ValueType" \notin DOMAIN node_dict
            \/ node_dict["ValueType"].v \notin DOMAIN node_dict
         THEN Raise(net, "KeyError")
         ELSE add_boundary_node(net, S(node_name), S(node_dict["ValueType"].v),
                                node_dict[node_dict["ValueType"].v])
    ELSE AddFaceFromProps(net, node_name, node_dict)

RECURSIVE UpdateNodesFromProps(_, _, _, _)
UpdateNodesNext(r, items, nd_name_list, i) ==
    IF r.exc # "" THEN r ELSE UpdateNodesFromProps(r.net, items, nd_name_list, i)

\* the loop over props["Nodes"]: an entry whose name no node of _nodes had when
\* the loop started is added
UpdateNodesFromProps(net, items, nd_name_list, i) ==
    IF i > Len(items) THEN Ok(net, "None")
    ELSE IF items[i][1] \in nd_name_list
    THEN UpdateNodesFromProps(net, items, nd_name_list, i + 1)
    ELSE UpdateNodesNext(AddFromNodeProps(net, items[i][1], items[i][2]),
                         items, nd_name_list, i + 1)

RECURSIVE UpdateLinksFromProps(_, _, _, _)
UpdateLinksNext(r, items, l_name_list, i) ==
    IF r.exc # "" THEN r ELSE UpdateLinksFromProps(r.net, items, l_name_list, i)

\* the loop over props["Links"]
UpdateLinksFromProps(net, items, l_name_list, i) ==
    IF i > Len(items) THEN Ok(net, "None")
    ELSE IF items[i][1] \in l_name_list
    THEN UpdateLinksFromProps(net, items, l_name_list, i + 1)
    ELSE UpdateLinksNext(AddLinkNamed(net, S(items[i][2][1]), S(items[i][2][2]),
                                      items[i][2][Len(items[i][2])], items[i][1]),
                         items, l_name_list, i + 1)

\* the names of _nodes and of _links
NodeNames(net) == {net._nodes[i].name : i \in DOMAIN net._nodes}
LinkNames(net) == {net._links[i].name : i \in DOMAIN net._links}

\* _update_from_props, second half: the links
UpdateLinksPart(r) ==
    IF r.exc # "" THEN r
    ELSE IF "Links" \in DOMAIN r.net.props
    THEN UpdateLinksFromProps(r.net, r.net.props["Links"], LinkNames(r.net), 1)
    ELSE r

\* _update_from_props, first half: the nodes
UpdateNodesPart(net) ==
    IF "Nodes" \in DOMAIN net.props
    THEN UpdateNodesFromProps(net, net.props["Nodes"], NodeNames(net), 1)
    ELSE Ok(net, "None")

_update_from_props(net) == UpdateLinksPart(UpdateNodesPart(net))

\* the values of {node.name: node ...} over the face nodes F of _nodes: one
\* entry per name, at the place of the first node of that name, holding the
\* last node of that name
DictOfNodes(F) ==
    LET first(i) == \A j \in 1..(i - 1) : F[j].name # F[i].name
        lastOf(i) == CHOOSE j \in DOMAIN F :
                        /\ F[j].name = F[i].name
                        /\ \A m \in DOMAIN F : F[m].name = F[i].name => m <= j
        idx == SelectSeq([i \in DOMAIN F |-> i], first)
    IN  [i \in DOMAIN idx |-> F[lastOf(idx[i])]]

\* the values of the face_nodes property, once _update_from_props has run
FaceNodeValues(nodes) == DictOfNodes(SelectSeq(nodes, LAMBDA n : n.node_type = "FaceNode"))

\* props["Faces"] as create computes it
FaceIds(nodes) == [i \in DOMAIN FaceNodeValues(nodes) |-> FaceNodeValues(nodes)[i].props["FaceID"]]

NoFaces(props) == "Faces" \notin DOMAIN props \/ props["Faces"] = << >>

\* create: SchematicData is set when missing or empty
WithSchematicData(props) ==
    IF "SchematicData" \notin DOMAIN props \/ props["SchematicData"] = << >>
    THEN Put(props, "SchematicData", EmptyDict)
    ELSE props

\* create: Faces is computed from the face nodes when missing or empty
WithFaces(u) ==
    IF u.exc # "" THEN u
    ELSE Ok([u.net EXCEPT !.props = WithSchematicData(Put(@, "Faces", FaceIds(u.net._nodes)))],
            "True")

\* BoundaryNetwork.create up to the host call
CreateProps(net) ==
    IF NoFaces(net.props) THEN WithFaces(_update_from_props(net))
    ELSE Ok([net EXCEPT !.props = WithSchematicData(@)], "True")

Range(s) == {s[i] : i \in DOMAIN s}

\* one call of the host's scripting interface; ok is FALSE when the host raised
HostCall(c, k, name, ok, args) ==
    [call |-> c, net |-> k, name |-> name, ok |-> ok, args |-> args]

\* generate_unique_name(root): root, "_" and a random suffix
RandomSuffixes == {"AAAAAA", "BBBBBB"}
generate_unique_name(root) == {root \o "_" \o x : x \in RandomSuffixes}

\* BoundaryNetwork.create, the host call: the properties are sent whole in one
\* AssignNetworkBoundary call, which the host accepts or raises on
CreateSend(r, k, log, host_ok) ==
    IF r.exc # "" THEN [net |-> r.net, exc |-> r.exc, calls |-> log]
    ELSE [net |-> r.net,
          exc |-> IF host_ok THEN "" ELSE "HostError",
          calls |-> Append(log, HostCall("AssignNetworkBoundary", k, r.net.name,
                                         host_ok, r.net.props))]

\* BoundaryNetwork.create of the object at index k
create(net, k, log, host_ok) == CreateSend(CreateProps(net), k, log, host_ok)

\* BoundaryNetwork.__init__, the end: create() when asked to
InitCreate(u, do_create, k, log, host_ok) ==
    IF u.exc # "" THEN [net |-> u.net, exc |-> u.exc, calls |-> log]
    ELSE IF do_create THEN create(u.net, k, log, host_ok)
    ELSE [net |-> u.net, exc |-> "", calls |-> log]

\* BoundaryNetwork.__init__(app, name, props, create) for the object that will
\* sit at index k; gen is the name generate_unique_name returns
NewNetwork(name, props, do_create, gen, k, log, host_ok) ==
    InitCreate(_update_from_props([name |-> IF IsNone(name) THEN gen ELSE PyStr(name),
                                   _nodes |-> << >>, _links |-> << >>, props |-> props]),
               do_create, k, log, host_ok)

\* BoundaryObject.delete of a network: the boundary of that name is deleted in
\* the host
delete(net, k, log) ==
    Append(log, HostCall("DeleteBoundaries", k, net.name, TRUE, <<net.name>>))

\* Icepak.thermal_networks: a dictionary keyed by the names of the registered networks
thermal_networks_keys == {nets[j].name : j \in Range(_thermal_networks)}

\* update without the Undo call of the except block
UpdateTryNoUndo(c, k) ==
    IF c.exc = "" THEN [net |-> c.net, ret |-> "True", calls |-> c.calls]
    ELSE [net |-> c.net, ret |-> "False", calls |-> c.calls]

\* update, the try block: True when create returned, Undo and False when it raised
UpdateTry(c, k) ==
    IF c.exc = "" THEN [net |-> c.net, ret |-> "True", calls |-> c.calls]
    ELSE [net |-> c.net, ret |-> "False",
          calls |-> Append(c.calls, HostCall("Undo", k, c.net.name, TRUE, << >>))]

\* BoundaryNetwork.update of the object at index k
update(net, k, log, host_ok) ==
    IF net.name \in thermal_networks_keys
    THEN UpdateTry(create(net, k, delete(net, k, log), host_ok), k)
    ELSE [net |-> net, ret |-> "False", calls |-> log]

\* what every operation records of itself: n is the number of host calls made
\* before it started
Done(op, k, a, exc, ret) ==
    /\ last' = [op |-> op, k |-> k, a |-> a, exc |-> exc, ret |-> ret, n |-> Len(calls)]
    /\ steps' = steps + 1

\* no call of generate_fluent_mesh has been made: no mesher runs, and no file
\* on disk has been written by one
NoMesh == [pc |-> "idle", call |-> 0, origin |-> << >>, assigned |-> << >>]

\* the objects of the design
ObjectNames == {"Box1"}

Init ==
    /\ nets = << >>
    /\ _thermal_networks = << >>
    /\ boundaries = << >>
    /\ calls = << >>
    /\ last = [op |-> "Icepak", k |-> 0, a |-> << >>, exc |-> "", ret |-> "obj", n |-> 0]
    /\ steps = 0
    /\ files = {}
    /\ xml = << >>
    /\ mesh = NoMesh
    /\ design = [solution_type |-> "SteadyState", solve_inside |-> [o \in ObjectNames |-> TRUE]]

\* ---------------------------------------------------------------- actions
\* the host calls after the first n belong to no object: the constructor that
\* made them raised and returned none
Unowned(log, n) == [i \in DOMAIN log |-> IF i > n THEN [log[i] EXCEPT !.net = 0] ELSE log[i]]

\* a constructor call that built the object r.net, or raised
Constructed(op, a, r, register) ==
    /\ nets' = IF r.exc = "" THEN Append(nets, r.net) ELSE nets
    /\ _thermal_networks' = IF r.exc = "" /\ register
                            THEN Append(_thermal_networks, Len(nets) + 1)
                            ELSE _thermal_networks
    /\ calls' = IF r.exc = "" THEN r.calls ELSE Unowned(r.calls, Len(calls))
    /\ Done(op, IF r.exc = "" THEN Len(nets) + 1 ELSE 0, a, r.exc,
            IF r.exc = "" THEN "obj" ELSE "None")
    /\ UNCHANGED <<boundaries, design, files, xml, mesh>>

\* BoundaryNetwork(app, name, None, create): a network object built directly
BoundaryNetwork(name, do_create, gen, host_ok) ==
    /\ steps < MaxSteps /\ Len(nets) < MaxNets
    /\ Constructed("BoundaryNetwork", [name |-> name, create |-> do_create],
                   NewNetwork(name, EmptyDict, do_create, gen, Len(nets) + 1, calls, host_ok),
                   FALSE)

\* Icepak.create_network_object(name, None, create): the object built is
\* appended to _thermal_networks
create_network_object(name, do_create, gen, host_ok) ==
    /\ steps < MaxSteps /\ Len(nets) < MaxNets
    /\ Constructed("create_network_object", [name |-> name, create |-> do_create],
                   NewNetwork(name, EmptyDict, do_create, gen, Len(nets) + 1, calls, host_ok),
                   TRUE)

\* an operation of network k that changes only that network
OnNet(op, k, a, r) ==
    /\ nets' = [nets EXCEPT ![k] = r.net]
    /\ Done(op, k, a, r.exc, r.ret)
    /\ UNCHANGED <<_thermal_networks, boundaries, calls, design, files, xml, mesh>>

AddInternalNode(k, name, power, mass, specific_heat) ==
    /\ steps < MaxSteps /\ k \in DOMAIN nets
    /\ OnNet("add_internal_node", k,
             [name |-> name, power |-> power, mass |-> mass, specific_heat |-> specific_heat],
             add_internal_node(nets[k], name, power, mass, specific_heat))

AddBoundaryNode(k, name, assignment_type, value) ==
    /\ steps < MaxSteps /\ k \in DOMAIN nets
    /\ OnNet("add_boundary_node", k,
             [name |-> name, assignment_type |-> assignment_type, value |-> value],
             add_boundary_node(nets[k], name, assignment_type, value))

AddFaceNode(k, face_id, name, thermal_resistance, material, thickness, resistance) ==
    /\ steps < MaxSteps /\ k \in DOMAIN nets
    /\ OnNet("add_face_node", k,
             [face_id |-> face_id, name |-> name, thermal_resistance |-> thermal_resistance,
              material |-> material, thickness |-> thickness, resistance |-> resistance],
             add_face_node(nets[k], face_id, name, thermal_resistance, material, thickness,
                           resistance))

AddNodesFromDictionaries(k, nodes_dict) ==
    /\ steps < MaxSteps /\ k \in DOMAIN nets
    /\ OnNet("add_nodes_from_dictionaries", k, [nodes_dict |-> nodes_dict],
             add_nodes_from_dictionaries(nets[k], nodes_dict))

DeleteNode(k, i) ==
    /\ steps < MaxSteps /\ k \in DOMAIN nets /\ i \in DOMAIN nets[k]._nodes
    /\ OnNet("delete_node", k, [i |-> i], delete_node(nets[k], i))

\* add_link with name None, after self.links has run _update_from_props: gen is
\* the generated name the loop ends on, one that no link of _links has
AddLinkAfterUpdate(u, node1, node2, value, gen) ==
    IF u.exc # "" THEN Raise(u.net, u.exc)
    ELSE AddLinkNamed(u.net, node1, node2, value, gen)

\* BoundaryNetwork.add_link
add_link(net, node1, node2, value, name, gen) ==
    IF IsNone(name)
    THEN AddLinkAfterUpdate(_update_from_props(net), node1, node2, value, gen)
    ELSE AddLinkNamed(net, node1, node2, value, PyStr(name))

\* the names generate_unique_name("Link") can return that end the loop of add_link
FreeLinkNames(net) == generate_unique_name("Link") \ LinkNames(_update_from_props(net).net)

AddLink(k, node1, node2, value, name, gen) ==
    /\ steps < MaxSteps /\ k \in DOMAIN nets
    /\ IF IsNone(name) THEN gen \in FreeLinkNames(nets[k]) ELSE gen = ""
    /\ OnNet("add_link", k, [node1 |-> node1, node2 |-> node2, value |-> value, name |-> name],
             add_link(nets[k], node1, node2, value, name, gen))

\* one entry of add_links_from_dictionaries: the add_link call in the try block
AddLinkFromDict(net, connection, gen) ==
    IF "Link" \notin DOMAIN connection THEN Raise(net, "KeyError")
    ELSE IF Len(connection["Link"]) < 3 THEN Raise(net, "IndexError")
    ELSE add_link(net, connection["Link"][1], connection["Link"][2], connection["Link"][3],
                  Get(connection, "Name"), gen)

RECURSIVE add_links_from_dictionaries(_, _, _)
\* the except block: the exception is logged and the loop goes on with the
\* network as the failed call left it
LinksDictNext(r, rest, gens) == add_links_from_dictionaries(r.net, rest, gens)

\* BoundaryNetwork.add_links_from_dictionaries; gens[i] is the name generated
\* for the i-th connection when it has none
add_links_from_dictionaries(net, connections, gens) ==
    IF connections = << >> THEN Ok(net, "True")
    ELSE LinksDictNext(AddLinkFromDict(net, Head(connections), Head(gens)),
                       Tail(connections), Tail(gens))

\* the generated names are free when they are used: none is the name of a link
\* held before, named by an earlier connection or generated earlier
GensFit(net, connections, gens) ==
    /\ Len(gens) = Len(connections)
    /\ \A i \in DOMAIN connections :
          IF "Name" \in DOMAIN connections[i] /\ ~IsNone(connections[i]["Name"])
          THEN gens[i] = ""
          ELSE /\ gens[i] \in generate_unique_name("Link") \ LinkNames(net)
               /\ \A j \in 1..(i - 1) :
                     /\ gens[j] # gens[i]
                     /\ "Name" \in DOMAIN connections[j]
                           => PyStr(connections[j]["Name"]) # gens[i]

AddLinksFromDictionaries(k, connections, gens) ==
    /\ steps < MaxSteps /\ k \in DOMAIN nets
    /\ GensFit(_update_from_props(nets[k]).net, connections, gens)
    /\ OnNet("add_links_from_dictionaries", k, [connections |-> connections],
             add_links_from_dictionaries(nets[k], connections, gens))

DeleteLink(k, i) ==
    /\ steps < MaxSteps /\ k \in DOMAIN nets /\ i \in DOMAIN nets[k]._links
    /\ OnNet("delete_link", k, [i |-> i], delete_link(nets[k], i))

\* an operation of network k that talks to the host
OnHost(op, k, r, ret) ==
    /\ nets' = [nets EXCEPT ![k] = r.net]
    /\ calls' = r.calls
    /\ Done(op, k, << >>, r.exc, ret)
    /\ UNCHANGED <<_thermal_networks, boundaries, design, files, xml, mesh>>

\* what create returns: True, or nothing when it raised
CreateDone(k, r) == OnHost("create", k, r, IF r.exc = "" THEN "True" ELSE "None")

Create(k, host_ok) ==
    /\ steps < MaxSteps /\ k \in DOMAIN nets
    /\ CreateDone(k, create(nets[k], k, calls, host_ok))

UpdateDone(k, r) == OnHost("update", k, [net |-> r.net, calls |-> r.calls, exc |-> ""], r.ret)

Update(k, host_ok) ==
    /\ steps < MaxSteps /\ k \in DOMAIN nets
    /\ UpdateDone(k, update(nets[k], k, calls, host_ok))

\* ------------------------------------------ the networks of one Icepak object
\* the arguments the operations are called with
NetNameArgs == {None, S("N1")}
NodeNameArgs == {S("A"), S("B")}
FaceIdArgs == {Num("1")}
NodeRefArgs == {S("A"), Num("1")}
LinkValueArgs == {Num("2"), Str("2", "kg_per_s"), Str("2", "m")}
LinkNameArgs == {None, S("L")}
NodesDictArgs ==
    { <<[Name |-> S("A"), Power |-> Num("1")], [FaceID |-> Num("1")]>>,
      <<[Name |-> S("B"), ValueType |-> S("Temperature"), Temperature |-> Num("3")],
        [Power |-> Num("1")]>> }
ConnectionsArgs ==
    { <<[Name |-> S("L"), Link |-> <<S("A"), Num("1"), Num("2")>>],
        [Link |-> <<S("A"), S("B"), Str("2", "w_per_m2kel")>>]>>,
      <<[Link |-> <<S("A"), S("B"), Str("2", "m")>>]>> }
HostArgs(do_create) == IF do_create THEN BOOLEAN ELSE {TRUE}
GenArgs(root, name) == IF IsNone(name) THEN generate_unique_name(root) ELSE {""}
GensArgs(connections) ==
    {g \in [DOMAIN connections -> generate_unique_name("Link") \cup {""}] : TRUE}

NextNetwork ==
    \/ \E name \in NetNameArgs, do_create \in BOOLEAN :
          \E gen \in GenArgs("Network", name), host_ok \in HostArgs(do_create) :
             create_network_object(name, do_create, gen, host_ok)
    \/ \E do_create \in BOOLEAN : BoundaryNetwork(S("N2"), do_create, "", TRUE)
    \/ \E k \in 1..MaxNets, host_ok \in BOOLEAN : Create(k, host_ok)
    \/ \E k \in 1..MaxNets, host_ok \in BOOLEAN : Update(k, host_ok)

NextNodes ==
    \/ \E k \in 1..MaxNets, name \in NodeNameArgs :
          AddInternalNode(k, name, Num("1"), None, None)
    \/ \E k \in 1..MaxNets, ty \in {S("Power"), S("Flux")} :
          AddBoundaryNode(k, S("B"), ty, Num("3"))
    \/ \E k \in 1..MaxNets, face_id \in FaceIdArgs :
          AddFaceNode(k, face_id, None, None, None, None, None)
    \/ \E k \in 1..MaxNets, nodes_dict \in NodesDictArgs :
          AddNodesFromDictionaries(k, nodes_dict)
    \/ \E k \in 1..MaxNets, i \in 1..MaxSteps : DeleteNode(k, i)

NextLinks ==
    \/ \E k \in 1..MaxNets, node1 \in NodeRefArgs, value \in LinkValueArgs,
          name \in LinkNameArgs :
          \E gen \in GenArgs("Link", name) : AddLink(k, node1, S("B"), value, name, gen)
    \/ \E k \in 1..MaxNets, connections \in ConnectionsArgs :
          \E gens \in GensArgs(connections) :
             AddLinksFromDictionaries(k, connections, gens)
    \/ \E k \in 1..MaxNets, i \in 1..(2 * MaxSteps) : DeleteLink(k, i)

Next == NextNetwork \/ NextNodes \/ NextLinks

Spec == Init /\ [][Next]_vars

\* ------------------------------------------ the networks and the host design
\* the operations that build a network of at most one internal and one face
\* node, create it in the host and update it
NextHost ==
    \/ \E name \in NetNameArgs, do_create \in BOOLEAN :
          \E gen \in GenArgs("Network", name), host_ok \in HostArgs(do_create) :
             create_network_object(name, do_create, gen, host_ok)
    \/ BoundaryNetwork(S("N2"), FALSE, "", TRUE)
    \/ \E k \in 1..MaxNets : AddInternalNode(k, S("A"), Num("1"), None, None)
    \/ \E k \in 1..MaxNets : AddFaceNode(k, Num("1"), None, None, None, None, None)
    \/ \E k \in 1..MaxNets, host_ok \in BOOLEAN : Create(k, host_ok)
    \/ \E k \in 1..MaxNets, host_ok \in BOOLEAN : Update(k, host_ok)

SpecHost == Init /\ [][NextHost]_vars

\* ------------------------------------------------------- claims C1 to C6, C9
\* the host calls the operation called last has made
NewCalls == SubSeq(calls, last.n + 1, Len(calls))
CallNames(cs) == [i \in DOMAIN cs |-> cs[i].call]

\* C1: in every reachable state, no two nodes held in the _nodes list of a
\* network have the same name
C1_NodeNamesUnique ==
    \A k \in DOMAIN nets : \A i, j \in DOMAIN nets[k]._nodes :
        i # j => nets[k]._nodes[i].name # nets[k]._nodes[j].name

\* C2: in every reachable state, no two links held in the _links list of a
\* network have the same name
C2_LinkNamesUnique ==
    \A k \in DOMAIN nets : \A i, j \in DOMAIN nets[k]._links :
        i # j => nets[k]._links[i].name # nets[k]._links[j].name

\* C3: no two networks registered in the Icepak object have the same name, so
\* the thermal_networks dictionary has one key for every registered network
C3_NetworkNamesUnique ==
    /\ \A i, j \in DOMAIN _thermal_networks :
          i # j => nets[_thermal_networks[i]].name # nets[_thermal_networks[j]].name
    /\ Cardinality(thermal_networks_keys) = Len(_thermal_networks)

\* props[key] of a network, empty when the key is missing
PropsOf(props, key) == IF key \in DOMAIN props THEN props[key] ELSE << >>

\* the properties sent hold one entry for every node and every link of the network
CarriesAll(args, net) ==
    /\ Len(PropsOf(args, "Nodes")) = Len(net._nodes)
    /\ \A i \in DOMAIN net._nodes :
          <<net._nodes[i].name, net._nodes[i].props>> \in Range(PropsOf(args, "Nodes"))
    /\ Len(PropsOf(args, "Links")) = Len(net._links)
    /\ \A i \in DOMAIN net._links :
          net._links[i].name \in DictKeys(PropsOf(args, "Links"))

\* C4: the host receives a network only through create(): a constructor called
\* with create=False and the add_* and delete_* operations make no host call,
\* and a create() makes exactly one AssignNetworkBoundary call, which carries
\* all the nodes and links the network holds
C4_HostReceivesWholeNetwork ==
    /\ last.op \in {"add_internal_node", "add_boundary_node", "add_face_node",
                    "add_nodes_from_dictionaries", "delete_node", "add_link",
                    "add_links_from_dictionaries", "delete_link"}
          => NewCalls = << >>
    /\ last.op \in {"create_network_object", "BoundaryNetwork"} /\ ~last.a.create
          => NewCalls = << >>
    /\ last.op = "create"
          => /\ CallNames(NewCalls) = <<"AssignNetworkBoundary">>
             /\ CarriesAll(NewCalls[1].args, nets[last.k])

\* the calls update makes when the create in it returns, and when it raises in
\* the host
UpdateCallsOk == <<"DeleteBoundaries", "AssignNetworkBoundary">>
UpdateCallsFailed == <<"DeleteBoundaries", "AssignNetworkBoundary", "Undo">>

\* C5: update() of a registered network deletes the host boundary and then
\* creates it, in that order; it returns True when the create succeeds; when
\* the create raises it makes exactly one Undo call and returns False, and
\* makes no second create
C5_UpdateDeletesThenCreates ==
    last.op = "update" /\ nets[last.k].name \in thermal_networks_keys
    => /\ \A i \in DOMAIN NewCalls : NewCalls[i].name = nets[last.k].name
       /\ \/ /\ last.ret = "True"
             /\ CallNames(NewCalls) = UpdateCallsOk
             /\ NewCalls[2].ok
          \/ /\ last.ret = "False"
             /\ CallNames(NewCalls) = UpdateCallsFailed
             /\ ~NewCalls[2].ok

\* an update of a registered network whose create raised in the host
C5_Witness_UpdateFailed ==
    /\ last.op = "update" /\ nets[last.k].name \in thermal_networks_keys
    /\ last.ret = "False"
    /\ CallNames(NewCalls) = UpdateCallsFailed

\* create() was invoked for network k before the operation called last started
CreateInvokedBefore(k) ==
    \E i \in 1..last.n : calls[i].net = k /\ calls[i].call = "AssignNetworkBoundary"

\* C6: update() of a network for which create() was never invoked returns
\* False and makes neither a delete nor a create call to the host
C6_UpdateOfUncreated ==
    last.op = "update" /\ ~CreateInvokedBefore(last.k)
    => last.ret = "False" /\ NewCalls = << >>

\* the link that the add_link called last has appended
LastLink == nets[last.k]._links[Len(nets[last.k]._links)]

\* C9: after a successful add_link that was given a face id as node1, with the
\* other endpoint naming a node of the network, both endpoints of the new link
\* are names of nodes present in the network: the face node was added
C9_LinkEndpointsPresent ==
    /\ last.op = "add_link" /\ last.exc = ""
    /\ IsNum(last.a.node1)
    /\ PyStr(last.a.node2) \in NodeNames(nets[last.k])
    => /\ LastLink.node_1 \in NodeNames(nets[last.k])
       /\ LastLink.node_2 \in NodeNames(nets[last.k])

\* ------------------------------------------- the values of links and face nodes
MaxValueSteps == 3      \* operations called when the values are explored

MassFlowUnits == {"g_per_s", "kg_per_s", "lbm_per_min", "lbm_per_s"}
ResistanceUnits == {"Kel_per_W", "cel_per_w", "FahSec_per_btu", "Kels_per_J"}
HtcUnits == {"w_per_m2kel", "w_per_m2Cel", "btu_per_rankHrFt2", "btu_per_fahHrFt2",
             "btu_per_rankSecFt2", "btu_per_fahSecFt2", "w_per_cm2kel"}

\* the values a link is given: a number, or a number with a unit, one of them
\* a unit that is no link unit
LinkUnitArgs == MassFlowUnits \cup ResistanceUnits \cup HtcUnits \cup {"m"}
ValueArgs == {Num("2"), Num("0.5")} \cup {Str("2", u) : u \in LinkUnitArgs}
ThermalResistanceArgs == {None, S("NoResistance"), S("Compute"), S("Specified")}
MaterialArgs == {None, S("Al-Extruded")}
ThicknessArgs == {None, Num("2"), Str("2", "mm")}
ResistanceArgs == {None, Num("2")}

\* the operations of the network N1, while fewer than MaxValueSteps were called
NewNetworkN1 ==
    /\ steps < MaxValueSteps
    /\ create_network_object(S("N1"), FALSE, "", TRUE)

AddLinkN1(node1, node2, value) ==
    /\ steps < MaxValueSteps
    /\ AddLink(1, node1, node2, value, S("L"), "")

AddFaceNodeN1(thermal_resistance, material, thickness, resistance) ==
    /\ steps < MaxValueSteps
    /\ AddFaceNode(1, Num("1"), None, thermal_resistance, material, thickness, resistance)

NextValues ==
    \/ NewNetworkN1
    \/ \E node1 \in NodeRefArgs, node2 \in NodeRefArgs, value \in ValueArgs :
          AddLinkN1(node1, node2, value)
    \/ \E thermal_resistance \in ThermalResistanceArgs, material \in MaterialArgs,
          thickness \in ThicknessArgs, resistance \in ResistanceArgs :
          AddFaceNodeN1(thermal_resistance, material, thickness, resistance)

SpecValues == Init /\ [][NextValues]_vars

\* the type the unit of a value stands for
TypeOfUnit(u) ==
    IF u \in MassFlowUnits THEN <<"C-Link", "Node1ToNode2">>
    ELSE IF u \in ResistanceUnits THEN <<"R-Link", "R">>
    ELSE <<"R-Link", "HTC">>

\* the unit of the value of a link
UnitOf(link) == decompose_variable_value(link.value)[2]

\* C7: the type of every link is the one its unit stands for (C-Link
\* Node1ToNode2 for a mass flow, R-Link R for a thermal resistance, R-Link HTC
\* for a heat transfer coefficient); a number given to add_link is stored as
\* that number with the unit cel_per_w and gives an R-Link R; and the node
\* references of the link are the ones given, a face id as FaceID<id>
C7_LinkTypeFromUnit ==
    /\ \A k \in DOMAIN nets : \A i \in DOMAIN nets[k]._links :
          UnitOf(nets[k]._links[i]) \in MassFlowUnits \cup ResistanceUnits \cup HtcUnits
          => link_type(nets[k]._links[i]) = TypeOfUnit(UnitOf(nets[k]._links[i]))
    /\ last.op = "add_link" /\ last.exc = ""
          => /\ link_type(LastLink) = TypeOfUnit(UnitOf(LastLink))
             /\ DictGet(nets[last.k].props["Links"], LastLink.name)
                   = <<LastLink.node_1, LastLink.node_2>> \o TypeOfUnit(UnitOf(LastLink))
                        \o <<LastLink.value>>
    /\ last.op = "add_link" /\ IsNum(last.a.value)
          => /\ last.exc = ""
             /\ LastLink.value = Str(last.a.value.v, "cel_per_w")
             /\ link_type(LastLink) = <<"R-Link", "R">>
    /\ last.op = "add_link"
          => /\ LastLink.node_1 = (IF IsNum(last.a.node1) THEN "FaceID" \o last.a.node1.v
                                   ELSE last.a.node1.v)
             /\ LastLink.node_2 = (IF IsNum(last.a.node2) THEN "FaceID" \o last.a.node2.v
                                   ELSE last.a.node2.v)

\* add_link was given a number and face ids, after a mass-flow link
C7_Witness_NumericLink ==
    /\ last.op = "add_link" /\ last.exc = ""
    /\ IsNum(last.a.value) /\ IsNum(last.a.node2)
    /\ Len(nets[last.k]._links) = 2
    /\ link_type(nets[last.k]._links[1]) = <<"C-Link", "Node1ToNode2">>
    /\ link_type(LastLink) = <<"R-Link", "R">>

\* C8: add_face_node with thermal_resistance "Compute" adds a node only when
\* both material and thickness are supplied; when either is missing it raises
\* and the nodes of the network are the ones held before
C8_ComputeNeedsBoth ==
    [][ /\ last'.op = "add_face_node"
        /\ ~IsNone(last'.a.thermal_resistance)
        /\ PyStr(last'.a.thermal_resistance) = "Compute"
        => IF IsNone(last'.a.material) \/ IsNone(last'.a.thickness)
           THEN /\ last'.exc # ""
                /\ nets'[last'.k]._nodes = nets[last'.k]._nodes
           ELSE /\ last'.exc = ""
                /\ Len(nets'[last'.k]._nodes) = Len(nets[last'.k]._nodes) + 1 ]_vars

\* ------------------------------------------- the facade: boundary methods
MaxBoundaries == 2      \* boundary methods called

\* BoundaryObject(app, name, props, type)
BoundaryObject(name, props, type) == [name |-> name, type |-> type, props |-> props]

\* BoundaryObject.create: the boundary is assigned in the host, which accepts it
\* or not
BoundaryCreate(bound, host_ok) ==
    HostCall("AssignBoundary", 0, bound.name, host_ok,
             [type |-> bound.type, props |-> bound.props])

\* what a facade method records of itself: err is TRUE when it logged an error
FacadeDone(op, a, exc, ret, err) ==
    /\ last' = [op |-> op, k |-> 0, a |-> a, exc |-> exc, ret |-> ret, n |-> Len(calls),
                err |-> err]
    /\ steps' = steps + 1

\* a boundary method that appends the boundary whatever create returned
AssignedAlways(op, a, bound, host_ok, err, log) ==
    /\ calls' = Append(log, BoundaryCreate(bound, host_ok))
    /\ boundaries' = Append(boundaries, bound)
    /\ FacadeDone(op, a, "", IF host_ok THEN "obj" ELSE "None", err)
    /\ UNCHANGED <<nets, _thermal_networks, design, files, xml, mesh>>

\* the last lines of a boundary method: the boundary is created in the host
\* and, when that succeeded, appended to boundaries and returned
Assigned(op, a, bound, host_ok, err, log) ==
    /\ calls' = Append(log, BoundaryCreate(bound, host_ok))
    /\ boundaries' = IF host_ok THEN Append(boundaries, bound) ELSE boundaries
    /\ FacadeDone(op, a, "", IF host_ok THEN "obj" ELSE "None", err)
    /\ UNCHANGED <<nets, _thermal_networks, design, files, xml, mesh>>

\* a boundary method that returned None, or raised, before it built a boundary
Returned(op, a, exc, err) ==
    /\ FacadeDone(op, a, exc, "None", err)
    /\ UNCHANGED <<nets, _thermal_networks, boundaries, calls, design, files, xml, mesh>>

\* modeler.create_face_list(air_faces, name)
create_face_list(air_faces, name) == HostCall("CreateEntityList", 0, name, TRUE, air_faces)

\* the properties of assign_grille
GrilleProps(air_faces, free_loss_coeff, free_area_ratio, external_temp, expternal_pressure, x_curve, y_curve) ==
    Props(<< <<"Faces", air_faces>> >>
          \o (IF free_loss_coeff
              THEN << <<"Pressure Loss Type", S("Coeff")>>,
                      <<"Free Area Ratio", S(PyStr(free_area_ratio))>> >>
              ELSE << <<"Pressure Loss Type", S("Curve")>> >>)
          \o << <<"External Rad. Temperature", external_temp>>,
                <<"External Total Pressure", expternal_pressure>>,
                <<"X", x_curve>>, <<"Y", y_curve>> >>)

\* Icepak.assign_grille
assign_grille(air_faces, free_loss_coeff, free_area_ratio, gen, host_ok) ==
    /\ steps < MaxBoundaries
    /\ Assigned("assign_grille",
                [air_faces |-> air_faces, free_loss_coeff |-> free_loss_coeff,
                 free_area_ratio |-> free_area_ratio],
                BoundaryObject(gen,
                               GrilleProps(air_faces, free_loss_coeff, free_area_ratio,
                                           S("AmbientTemp"), S("AmbientPressure"),
                                           List(<<"0", "1", "2">>), List(<<"0", "1", "2">>)),
                               "Grille"),
                host_ok, FALSE,
                Append(calls, create_face_list(air_faces, "boundary_faces" \o gen)))

\* Icepak.assign_openings
assign_openings(air_faces, gen, host_ok) ==
    /\ steps < MaxBoundaries
    /\ Assigned("assign_openings", [air_faces |-> air_faces],
                BoundaryObject(gen,
                               Props(<< <<"Faces", air_faces>>,
                                        <<"Temperature", S("AmbientTemp")>>,
                                        <<"External Rad. Temperature", S("AmbientRadTemp")>>,
                                        <<"Inlet Type", S("Pressure")>>,
                                        <<"Total Pressure", S("AmbientPressure")>> >>),
                               "Opening"),
                host_ok, FALSE,
                Append(calls, create_face_list(air_faces, "boundary_faces" \o gen)))

\* props["Faces"] = [id] for a face id, props["Objects"] = [name] for a name
AssignmentPairs(assignment) ==
    IF IsNum(assignment) THEN << <<"Faces", List(<<assignment>>)>> >>
    ELSE IF IsStr(assignment) THEN << <<"Objects", List(<<assignment>>)>> >>
    ELSE << >>

\* the name of a boundary: the one given, or the generated one
NameOr(name, gen) == IF ~Truthy(name) THEN gen ELSE PyStr(name)

\* create_source_power, the first two lines: input_power == 0 becomes "0W"
SourcePower(input_power) ==
    IF IsNum(input_power) /\ input_power.v = "0" THEN Str("0", "W") ELSE input_power

\* create_source_power, the test of line 700: not exactly one of input_power
\* and thermal_dependent_dataset is given, and an error is logged
SourcePowerError(input_power, thermal_dependent_dataset) ==
    Truthy(SourcePower(input_power)) = Truthy(thermal_dependent_dataset)

\* the properties of create_source_power
SourcePowerProps(face_id, thermal_dependent_dataset, input_power, thermal_condtion, surface_heat, temperature, radiate) ==
    Props(AssignmentPairs(face_id)
          \o << <<"Thermal Condition", thermal_condtion>> >>
          \o (IF IsNone(thermal_dependent_dataset)
              THEN << <<"Total Power", SourcePower(input_power)>> >>
              ELSE << <<"Total Power Variation Data",
                        Dict(Props(<< <<"Variation Type", S("Temp Dep")>>,
                                      <<"Variation Function", S("Piecewise Linear")>>,
                                      <<"Variation Value",
                                        S("[\"1W\", \"pwl(" \o PyStr(thermal_dependent_dataset)
                                          \o ",Temp)\"]")>> >>))>> >>)
          \o << <<"Surface Heat", surface_heat>>, <<"Temperature", temperature>>,
                <<"Radiation", Dict(Props(<< <<"Radiate", Bool(radiate)>> >>))>> >>)

\* Icepak.create_source_power
create_source_power(face_id, thermal_dependent_dataset, input_power, source_name, gen, host_ok) ==
    /\ steps < MaxBoundaries
    /\ Assigned("create_source_power",
                [face_id |-> face_id, thermal_dependent_dataset |-> thermal_dependent_dataset,
                 input_power |-> input_power, source_name |-> source_name],
                BoundaryObject(NameOr(source_name, gen),
                               SourcePowerProps(face_id, thermal_dependent_dataset, input_power,
                                                S("Total Power"), Str("0", "irrad_W_per_m2"),
                                                S("AmbientTemp"), FALSE),
                               "SourceIcepak"),
                host_ok, SourcePowerError(input_power, thermal_dependent_dataset), calls)

\* assign_source with a loop that gives every quantity its default
QuantityDefaults(default_values, choice, value, parsed) == default_values

\* assign_source, one of its two loops: the quantity chosen gets the value
\* given, or the entry parsed from it, and the others their defaults
RECURSIVE QuantityPairs(_, _, _, _)
QuantityPairs(default_values, choice, value, parsed) ==
    IF default_values = << >> THEN << >>
    ELSE (IF IsText(choice, Head(default_values)[1])
          THEN (IF IsDict(value) THEN parsed ELSE << <<Head(default_values)[1], value>> >>)
          ELSE <<Head(default_values)>>)
         \o QuantityPairs(Tail(default_values), choice, value, parsed)

ThermalDefaults ==
    << <<"Total Power", Str("0", "W")>>, <<"Surface Heat", Str("0", "irrad_W_per_m2")>>,
       <<"Temperature", S("AmbientTemp")>> >>
ElectricDefaults == << <<"Current", Str("0", "A")>>, <<"Voltage", Str("0", "V")>> >>
QuantitiesOf(default_values) == {default_values[i][1] : i \in DOMAIN default_values}

\* what _parse_variation_data returns for the quantity chosen, when the value
\* given for it is a dictionary
ParsedChoice(default_values, choice, value) ==
    IF IsStr(choice) /\ PyStr(choice) \in QuantitiesOf(default_values) /\ IsDict(value)
    THEN ParseDict(PyStr(choice), value)
    ELSE [none |-> FALSE, pairs |-> << >>]

\* assign_source, line 3773: a temperature dependent voltage or current
ElectricTempDep(voltage_current_choice, voltage_current_value) ==
    /\ IsStr(voltage_current_choice)
    /\ PyStr(voltage_current_choice) \in QuantitiesOf(ElectricDefaults)
    /\ IsDict(voltage_current_value)
    /\ voltage_current_value.v["Type"] = "Temp Dep"

\* the properties of assign_source
SourceProps(assignment, thermal_condition, assignment_value, radiate, voltage_current_choice, voltage_current_value) ==
    Props(AssignmentPairs(assignment)
          \o << <<"Thermal Condition", thermal_condition>> >>
          \o QuantityPairs(ThermalDefaults, thermal_condition, assignment_value,
                           ParsedChoice(ThermalDefaults, thermal_condition,
                                        assignment_value).pairs)
          \o << <<"Radiation", Dict(Props(<< <<"Radiate", Bool(radiate)>> >>))>>,
                <<"Voltage/Current - Enabled", Bool(Truthy(voltage_current_choice))>>,
                <<"Voltage/Current Option", voltage_current_choice>> >>
          \o QuantityPairs(ElectricDefaults, voltage_current_choice, voltage_current_value,
                           ParsedChoice(ElectricDefaults, voltage_current_choice,
                                        voltage_current_value).pairs))

\* Icepak.assign_source
assign_source(assignment, thermal_condition, assignment_value, boundary_name, radiate, voltage_current_choice, voltage_current_value, gen, host_ok) ==
    /\ steps < MaxBoundaries
    /\ LET a == [assignment |-> assignment, thermal_condition |-> thermal_condition,
                 assignment_value |-> assignment_value, boundary_name |-> boundary_name,
                 radiate |-> radiate, voltage_current_choice |-> voltage_current_choice,
                 voltage_current_value |-> voltage_current_value]
       IN  IF ParsedChoice(ThermalDefaults, thermal_condition, assignment_value).none
           THEN Returned("assign_source", a, "", TRUE)
           ELSE IF ElectricTempDep(voltage_current_choice, voltage_current_value)
           THEN Returned("assign_source", a, "", TRUE)
           ELSE IF ParsedChoice(ElectricDefaults, voltage_current_choice,
                                voltage_current_value).none
           THEN Returned("assign_source", a, "", TRUE)
           ELSE Assigned("assign_source", a,
                         BoundaryObject(NameOr(boundary_name, gen),
                                        SourceProps(assignment, thermal_condition,
                                                    assignment_value, radiate,
                                                    voltage_current_choice,
                                                    voltage_current_value),
                                        "SourceIcepak"),
                         host_ok, FALSE, calls)

\* assign_solid_block, one quantity: a dictionary is parsed, a number gets the
\* unit, another value is kept
BlockQuantity(quantity, assignment, unit) ==
    IF IsDict(assignment) THEN ParseDict(quantity, assignment)
    ELSE [none |-> FALSE,
          pairs |-> << <<quantity, IF IsNum(assignment) THEN PlusUnit(assignment, unit)
                                   ELSE assignment>> >>]

\* assign_solid_block, the power assignment
BlockPower(power_assignment) ==
    IF IsText(power_assignment, "Joule Heating")
    THEN _parse_variation_data("Total Power", "Joule Heating", None, "None")
    ELSE BlockQuantity("Total Power", power_assignment, "W")

\* assign_solid_block, the external conditions; props.update(None) raises
BlockExternal(htc, ext_temperature) ==
    IF Truthy(htc)
    THEN [none |-> BlockQuantity("Temperature", ext_temperature, "cel").none
                   \/ BlockQuantity("Heat Transfer Coefficient", htc, "w_per_m2kel").none,
          pairs |-> << <<"Use External Conditions", Bool(TRUE)>> >>
                    \o BlockQuantity("Temperature", ext_temperature, "cel").pairs
                    \o BlockQuantity("Heat Transfer Coefficient", htc, "w_per_m2kel").pairs]
    ELSE [none |-> FALSE, pairs |-> << <<"Use External Conditions", Bool(FALSE)>> >>]

\* an object that is always solved inside
solve_inside_always(object_name) == TRUE

\* self.modeler.get_object_from_name(object_name).solve_inside
solve_inside(object_name) == design.solve_inside[object_name]

\* Icepak.assign_solid_block
assign_solid_block(object_name, power_assignment, boundary_name, htc, ext_temperature, gen, host_ok) ==
    /\ steps < MaxBoundaries
    /\ LET a == [object_name |-> object_name, power_assignment |-> power_assignment,
                 boundary_name |-> boundary_name, htc |-> htc,
                 ext_temperature |-> ext_temperature]
       IN  IF ~solve_inside(object_name)
           THEN Returned("assign_solid_block", a, "", TRUE)
           ELSE IF ~IsText(ext_temperature, "AmbientTemp") /\ ~IsNone(ext_temperature)
                   /\ ~Truthy(htc)
           THEN Returned("assign_solid_block", a, "", TRUE)
           ELSE IF IsDict(ext_temperature) /\ ext_temperature.v["Type"] = "Temp Dep"
           THEN Returned("assign_solid_block", a, "", TRUE)
           ELSE IF BlockPower(power_assignment).none \/ BlockExternal(htc, ext_temperature).none
           THEN Returned("assign_solid_block", a, "TypeError", TRUE)
           ELSE Assigned("assign_solid_block", a,
                         BoundaryObject(NameOr(boundary_name, gen),
                                        Props(<< <<"Block Type", S("Solid")>>,
                                                 <<"Objects", List(<<S(object_name)>>)>> >>
                                              \o BlockPower(power_assignment).pairs
                                              \o BlockExternal(htc, ext_temperature).pairs),
                                        "Block"),
                         host_ok, FALSE, calls)

\* the last lines of a boundary method that returns ret when create() failed
AssignedOr(op, a, bound, host_ok, log, ret) ==
    /\ calls' = Append(log, BoundaryCreate(bound, host_ok))
    /\ boundaries' = IF host_ok THEN Append(boundaries, bound) ELSE boundaries
    /\ FacadeDone(op, a, "", IF host_ok THEN "obj" ELSE ret, FALSE)
    /\ UNCHANGED <<nets, _thermal_networks, design, files, xml, mesh>>

\* self.modeler[el].material_name = material_name, for each el of object_name
RECURSIVE set_material_name(_, _)
set_material_name(object_name, material_name) ==
    IF object_name = << >> THEN << >>
    ELSE <<HostCall("ChangeProperty", 0, PyStr(Head(object_name)), TRUE, material_name)>>
         \o set_material_name(Tail(object_name), material_name)

\* an argument that is one item or a list of items, as a list
AsList(x) == IF IsList(x) THEN x ELSE List(<<x>>)

\* Icepak.create_source_block
create_source_block(object_name, input_power, assign_material, material_name, use_object_for_name, gen, host_ok) ==
    /\ steps < MaxBoundaries
    /\ Assigned("create_source_block",
                [object_name |-> object_name, input_power |-> input_power,
                 assign_material |-> assign_material,
                 use_object_for_name |-> use_object_for_name],
                BoundaryObject(IF use_object_for_name THEN PyStr(AsList(object_name).v[1])
                               ELSE gen,
                               Props(<< <<"Objects", AsList(object_name)>>,
                                        <<"Block Type", S("Solid")>>,
                                        <<"Use External Conditions", Bool(FALSE)>>,
                                        <<"Total Power", input_power>> >>),
                               "Block"),
                host_ok, FALSE,
                calls \o (IF assign_material
                          THEN set_material_name(AsList(object_name).v, material_name)
                          ELSE << >>))

\* create_conduting_plate, one side of the plate
PlateSide(radiate, to, material_key, surf_material) ==
    IF radiate
    THEN Dict(Props(<< <<"Radiate", Bool(TRUE)>>, <<"RadiateTo", S(to)>>,
                       <<material_key, surf_material>> >>))
    ELSE Dict(Props(<< <<"Radiate", Bool(FALSE)>> >>))

\* the total power of a plate or a source: the power given, or the dataset
TotalPowerPairs(thermal_dependent_dataset, input_power) ==
    IF IsNone(thermal_dependent_dataset)
    THEN << <<"Total Power", input_power>> >>
    ELSE << <<"Total Power Variation Data",
              Dict(Props(<< <<"Variation Type", S("Temp Dep")>>,
                            <<"Variation Function", S("Piecewise Linear")>>,
                            <<"Variation Value",
                              S("[\"1W\", \"pwl(" \o PyStr(thermal_dependent_dataset)
                                \o ",Temp)\"]")>> >>))>> >>

\* Icepak.create_conduting_plate
create_conduting_plate(face_id, thermal_specification, thermal_dependent_dataset, input_power, radiate_low, radiate_high, bc_name, gen, host_ok) ==
    /\ steps < MaxBoundaries
    /\ Assigned("create_conduting_plate",
                [face_id |-> face_id, thermal_specification |-> thermal_specification,
                 thermal_dependent_dataset |-> thermal_dependent_dataset,
                 input_power |-> input_power, radiate_low |-> radiate_low,
                 radiate_high |-> radiate_high, bc_name |-> bc_name],
                BoundaryObject(NameOr(bc_name, gen),
                               Props(AssignmentPairs(face_id)
                                     \o << <<"LowSide",
                                             PlateSide(radiate_low, "AllObjects",
                                                       "Surface Material",
                                                       S("Steel-oxidised-surface"))>>,
                                           <<"HighSide",
                                             PlateSide(radiate_high, "AllObjects - High",
                                                       "Surface Material - High",
                                                       S("Steel-oxidised-surface"))>>,
                                           <<"Thermal Specification", thermal_specification>>,
                                           <<"Thickness", Str("1", "mm")>>,
                                           <<"Solid Material", S("Al-Extruded")>>,
                                           <<"Conductance", Str("0", "W_per_Cel")>>,
                                           <<"Thermal Resistance", Str("0", "Kel_per_W")>>,
                                           <<"Thermal Impedance", Str("0", "celm2_per_w")>> >>
                                     \o TotalPowerPairs(thermal_dependent_dataset, input_power)
                                     \o << <<"Shell Conduction", Bool(FALSE)>> >>),
                               "Conducting Plate"),
                host_ok, FALSE, calls)

\* the design the facade is attached to: its project, the objects of its
\* modeler and the nominal values of its variables
project_name == "Project1"
object_names == <<"Region", "Box1">>
nominal_w_values_dict == << >>

\* assign_em_losses, the objects the losses are mapped to
EmObjects(object_list) ==
    IF ~Truthy(object_list)
    THEN List([i \in 1..Len(SelectSeq(object_names, LAMBDA n : n # "Region")) |->
                  S(SelectSeq(object_names, LAMBDA n : n # "Region")[i])])
    ELSE object_list

\* assign_em_losses, argparam: the nominal values, then the parameters given
EmParams(paramlist) ==
    IF Truthy(paramlist) /\ IsList(paramlist)
    THEN Props(nominal_w_values_dict
               \o [i \in DOMAIN paramlist.v |-> <<PyStr(paramlist.v[i]), paramlist.v[i]>>])
    ELSE IF Truthy(paramlist) /\ IsDict(paramlist)
    THEN [k \in DOMAIN Props(nominal_w_values_dict) \cup DOMAIN paramlist.v |->
             IF k \in DOMAIN paramlist.v THEN paramlist.v[k]
             ELSE Props(nominal_w_values_dict)[k]]
    ELSE Props(nominal_w_values_dict)

\* Icepak.assign_em_losses
assign_em_losses(designname, setupname, sweepname, map_frequency, surface_objects, source_project_name, paramlist, object_list, gen, host_ok) ==
    /\ steps < MaxBoundaries
    /\ AssignedOr("assign_em_losses",
                  [designname |-> designname, map_frequency |-> map_frequency,
                   source_project_name |-> source_project_name, paramlist |-> paramlist,
                   object_list |-> object_list],
                  BoundaryObject(gen,
                                 Props(<< <<"Objects", EmObjects(object_list)>>,
                                          <<"Project",
                                            IF IsNone(source_project_name)
                                               \/ IsText(source_project_name, project_name)
                                            THEN S("This Project*")
                                            ELSE S(PyStr(source_project_name) \o ".aedt")>>,
                                          <<"Product", S("ElectronicsDesktop")>>,
                                          <<"Design", S(designname)>>,
                                          <<"Soln", S(setupname \o " : " \o sweepname)>>,
                                          <<"Params", Dict(EmParams(paramlist))>>,
                                          <<"ForceSourceToSolve", Bool(TRUE)>>,
                                          <<"PreservePartnerSoln", Bool(TRUE)>>,
                                          <<"PathRelativeTo", S("TargetProject")>>,
                                          <<"Intrinsics",
                                            IF Truthy(map_frequency) THEN List(<<map_frequency>>)
                                            ELSE List(<< >>)>>,
                                          <<"SurfaceOnly",
                                            IF IsNone(surface_objects) THEN List(<< >>)
                                            ELSE surface_objects>> >>),
                                 "EMLoss"),
                  host_ok, calls, "False")

Tuple(s) == [t |-> "tuple", v |-> s]

\* "{}unit".format(x) for an x that is not a string
Formatted(x, unit) == IF ~IsStr(x) THEN PlusUnit(x, unit) ELSE x

\* the length unit of the modeler
model_units == "mm"

\* the default values of the keyword arguments of assign_stationary_wall
WallDefaults ==
    [name |-> None, temperature |-> Str("0", "cel"), heat_flux |-> Str("0", "irrad_W_per_m2"),
     thickness |-> Str("0", "mm"), htc |-> Str("0", "w_per_m2kel"), htc_dataset |-> None,
     ref_temperature |-> S("AmbientTemp"), material |-> S("Al-Extruded"),
     radiate |-> Bool(FALSE), radiate_surf_mat |-> S("Steel-oxidised-surface"),
     ht_correlation |-> Bool(FALSE), ht_correlation_type |-> S("Natural Convection"),
     ht_correlation_fluid |-> S("air"), ht_correlation_flow_type |-> S("Turbulent"),
     ht_correlation_flow_direction |-> S("X"),
     ht_correlation_value_type |-> S("Average Values"),
     ht_correlation_free_stream_velocity |-> Str("1", "m_per_sec"),
     ht_correlation_surface |-> S("Vertical"),
     ht_correlation_amb_temperature |-> S("AmbientTemp"), shell_conduction |-> Bool(FALSE),
     ext_surf_rad |-> Bool(FALSE), ext_surf_rad_material |-> S("Stainless-steel-cleaned"),
     ext_surf_rad_ref_temp |-> S("AmbientTemp"), ext_surf_rad_view_factor |-> S("1")]

\* the keyword arguments kw over the defaults d
WithKw(d, kw) == [k \in DOMAIN d |-> IF k \in DOMAIN kw THEN kw[k] ELSE d[k]]

\* assign_stationary_wall, props["Heat Transfer Data"]
WallHeatTransferData(p) ==
    Props(<< <<"Heat Transfer Correlation", p.ht_correlation>>,
             <<"Heat Transfer Convection Type", S("Forced Convection")>> >>
          \o (IF Truthy(p.ht_correlation)
              THEN << <<"Heat Transfer Correlation", Bool(TRUE)>>,
                      <<"Heat Transfer Convection Type", p.ht_correlation_type>>,
                      <<"Heat Transfer Convection Fluid Material", p.ht_correlation_fluid>> >>
                   \o (IF IsText(p.ht_correlation_type, "Forced Convection")
                       THEN << <<"Flow Type", p.ht_correlation_flow_type>>,
                               <<"Flow Direction", p.ht_correlation_flow_direction>>,
                               <<"Heat Transfer Coeff Value Type", p.ht_correlation_value_type>>,
                               <<"Stream Velocity",
                                 Formatted(p.ht_correlation_free_stream_velocity,
                                           "m_per_sec")>> >>
                       ELSE IF IsText(p.ht_correlation_type, "Natural Convection")
                       THEN << <<"Surface", p.ht_correlation_surface>>,
                               <<"Ambient Temperature",
                                 Formatted(p.ht_correlation_amb_temperature, "cel")>> >>
                       ELSE << >>)
              ELSE << >>))

\* assign_stationary_wall, props
WallProps(geometry, boundary_condition, p) ==
    Props(<< <<IF IsNum(AsList(geometry).v[1]) THEN "Faces" ELSE "Objects", AsList(geometry)>>,
             <<"Thickness", Tuple(<<Formatted(p.thickness, model_units)>>)>>,
             <<"Solid Material", p.material>>,
             <<"External Condition", S(boundary_condition)>>,
             <<"Heat Flux", Formatted(p.heat_flux, "irrad_W_per_m2")>>,
             <<"Temperature", Formatted(p.temperature, "cel")>> >>
          \o (IF IsNone(p.htc_dataset)
              THEN << <<"Heat Transfer Coefficient", Formatted(p.htc, "w_per_m2kel")>> >>
              ELSE << <<"Heat Transfer Coefficient Variation Data",
                        Dict(Props(<< <<"Variation Type", S("Temp Dep")>>,
                                      <<"Variation Function", S("Piecewise Linear")>>,
                                      <<"Variation Value",
                                        S("[\"1w_per_m2kel\", \"pwl(" \o PyStr(p.htc_dataset)
                                          \o ",Temp)\"]")>> >>))>> >>)
          \o << <<"Reference Temperature", Formatted(p.ref_temperature, "cel")>>,
                <<"Heat Transfer Data", Dict(WallHeatTransferData(p))>>,
                <<"Radiation",
                  Dict(Props(<< <<"Radiate", p.radiate>>, <<"RadiateTo", S("AllObjects")>>,
                                <<"Surface Material", p.radiate_surf_mat>> >>))>>,
                <<"Shell Conduction", p.shell_conduction>>,
                <<"External Surface Radiation", p.ext_surf_rad>>,
                <<"External Material", p.ext_surf_rad_material>>,
                <<"External Radiation Reference Temperature", p.ext_surf_rad_ref_temp>>,
                <<"External Radiation View Factor",
                  IF ~IsStr(p.ext_surf_rad_view_factor)
                  THEN S(PyStr(p.ext_surf_rad_view_factor))
                  ELSE p.ext_surf_rad_view_factor>> >>)

\* assign_stationary_wall, the boundary object
WallBoundary(geometry, boundary_condition, p, gen) ==
    BoundaryObject(NameOr(p.name, gen), WallProps(geometry, boundary_condition, p),
                   "Stationary Wall")

\* Icepak.assign_stationary_wall: the boundary object is returned whatever
\* create() returned
assign_stationary_wall(geometry, boundary_condition, kw, gen, host_ok) ==
    /\ steps < MaxBoundaries
    /\ AssignedOr("assign_stationary_wall",
                  [geometry |-> geometry, boundary_condition |-> boundary_condition,
                   kw |-> kw],
                  WallBoundary(geometry, boundary_condition, WithKw(WallDefaults, kw), gen),
                  host_ok, calls, "obj")

\* the keyword arguments the wrappers with heat flux and with temperature
\* hand on, apart from the quantity itself
WallCommon(p) ==
    [name |-> p.name, thickness |-> p.thickness, material |-> p.material,
     radiate |-> p.radiate, radiate_surf_mat |-> p.radiate_surf_mat,
     shell_conduction |-> p.shell_conduction]

\* Icepak.assign_stationary_wall_with_heat_flux
assign_stationary_wall_with_heat_flux(geometry, kw, gen, host_ok) ==
    /\ steps < MaxBoundaries
    /\ AssignedOr("assign_stationary_wall_with_heat_flux",
                  [geometry |-> geometry, kw |-> kw],
                  WallBoundary(geometry, "Heat Flux",
                               WithKw(WallDefaults,
                                      WallCommon(WithKw(WallDefaults, kw))
                                      @@ [heat_flux |-> WithKw(WallDefaults, kw).heat_flux]),
                               gen),
                  host_ok, calls, "obj")

\* Icepak.assign_stationary_wall_with_temperature
assign_stationary_wall_with_temperature(geometry, kw, gen, host_ok) ==
    /\ steps < MaxBoundaries
    /\ AssignedOr("assign_stationary_wall_with_temperature",
                  [geometry |-> geometry, kw |-> kw],
                  WallBoundary(geometry, "Temperature",
                               WithKw(WallDefaults,
                                      WallCommon(WithKw(WallDefaults, kw))
                                      @@ [temperature |-> WithKw(WallDefaults, kw).temperature]),
                               gen),
                  host_ok, calls, "obj")

\* the keyword arguments assign_stationary_wall_with_htc hands on: the
\* surface and the ambient temperature of the correlation change places
WallHtcKw(p) ==
    [name |-> p.name, thickness |-> p.thickness, material |-> p.material, htc |-> p.htc,
     htc_dataset |-> p.htc_dataset, ref_temperature |-> p.ref_temperature,
     ht_correlation |-> p.ht_correlation, ht_correlation_type |-> p.ht_correlation_type,
     ht_correlation_fluid |-> p.ht_correlation_fluid,
     ht_correlation_flow_type |-> p.ht_correlation_flow_type,
     ht_correlation_flow_direction |-> p.ht_correlation_flow_direction,
     ht_correlation_value_type |-> p.ht_correlation_value_type,
     ht_correlation_free_stream_velocity |-> p.ht_correlation_free_stream_velocity,
     ht_correlation_surface |-> p.ht_correlation_amb_temperature,
     ht_correlation_amb_temperature |-> p.ht_correlation_surface,
     ext_surf_rad |-> p.ext_surf_rad, ext_surf_rad_material |-> p.ext_surf_rad_material,
     ext_surf_rad_ref_temp |-> p.ext_surf_rad_ref_temp,
     ext_surf_rad_view_factor |-> p.ext_surf_rad_view_factor, radiate |-> p.radiate,
     radiate_surf_mat |-> p.radiate_surf_mat, shell_conduction |-> p.shell_conduction]

\* Icepak.assign_stationary_wall_with_htc
assign_stationary_wall_with_htc(geometry, kw, gen, host_ok) ==
    /\ steps < MaxBoundaries
    /\ AssignedOr("assign_stationary_wall_with_htc",
                  [geometry |-> geometry, kw |-> kw],
                  WallBoundary(geometry, "Heat Transfer Coefficient",
                               WithKw(WallDefaults, WallHtcKw(WithKw(WallDefaults, kw))),
                               gen),
                  host_ok, calls, "obj")

\* assign_hollow_block, assignment_dict
assignment_dict ==
    [x \in {"Total Power", "Heat Flux", "Temperature", "Heat Transfer Coefficient"} |->
        IF x = "Total Power" THEN <<"Fixed Heat", "Total Power">>
        ELSE IF x = "Heat Flux" THEN <<"Fixed Heat", "Heat Flux">>
        ELSE IF x = "Temperature" THEN <<"Fixed Temperature", "Fixed Temperature">>
        ELSE <<"Internal Conditions", "Heat Transfer Coefficient">>]

\* assign_hollow_block, the value assigned to the quantity of the condition
HollowValue(thermal_condition, assignment_value) ==
    IF IsDict(assignment_value) THEN ParseDict(thermal_condition[2], assignment_value)
    ELSE IF IsText(assignment_value, "Joule Heating")
    THEN _parse_variation_data(thermal_condition[2], "Joule Heating", None, "None")
    ELSE [none |-> FALSE, pairs |-> << <<thermal_condition[2], assignment_value>> >>]

\* assign_hollow_block, the external temperature of internal conditions
HollowExternal(thermal_condition, external_temperature) ==
    IF thermal_condition[1] # "Internal Conditions" THEN [none |-> FALSE, pairs |-> << >>]
    ELSE IF IsDict(external_temperature) THEN ParseDict("Temperature", external_temperature)
    ELSE [none |-> FALSE, pairs |-> << <<"Temperature", external_temperature>> >>]

\* assign_hollow_block, props
HollowProps(object_name, thermal_condition, assignment_value, external_temperature) ==
    Props(<< <<"Block Type", S("Hollow")>>, <<"Objects", List(<<S(object_name)>>)>>,
             <<"Thermal Condition", S(thermal_condition[1])>> >>
          \o (IF thermal_condition[1] = "Fixed Heat"
              THEN << <<"Use Total Power", Bool(thermal_condition[2] = "Total Power")>> >>
              ELSE << >>)
          \o HollowValue(thermal_condition, assignment_value).pairs
          \o HollowExternal(thermal_condition, external_temperature).pairs)

\* Icepak.assign_hollow_block; props.update(None) raises TypeError
assign_hollow_block(object_name, assignment_type, assignment_value, boundary_name, external_temperature, gen, host_ok) ==
    /\ steps < MaxBoundaries
    /\ LET a == [object_name |-> object_name, assignment_type |-> assignment_type,
                 assignment_value |-> assignment_value, boundary_name |-> boundary_name,
                 external_temperature |-> external_temperature]
       IN  IF solve_inside(object_name)
           THEN Returned("assign_hollow_block", a, "", TRUE)
           ELSE IF IsText(assignment_value, "Joule Heating") /\ assignment_type # "Total Power"
           THEN Returned("assign_hollow_block", a, "", TRUE)
           ELSE IF assignment_type \notin DOMAIN assignment_dict
           THEN Returned("assign_hollow_block", a, "", TRUE)
           ELSE IF HollowValue(assignment_dict[assignment_type], assignment_value).none
           THEN Returned("assign_hollow_block", a, "TypeError", TRUE)
           ELSE IF /\ assignment_dict[assignment_type][1] = "Internal Conditions"
                   /\ IsDict(external_temperature)
                   /\ external_temperature.v["Type"] = "Temp Dep"
           THEN Returned("assign_hollow_block", a, "", TRUE)
           ELSE IF HollowExternal(assignment_dict[assignment_type], external_temperature).none
           THEN Returned("assign_hollow_block", a, "TypeError", TRUE)
           ELSE Assigned("assign_hollow_block", a,
                         BoundaryObject(NameOr(boundary_name, gen),
                                        HollowProps(object_name,
                                                    assignment_dict[assignment_type],
                                                    assignment_value, external_temperature),
                                        "Block"),
                         host_ok, FALSE, calls)

\* ------------------------------------------------ the boundaries of the facade
InitFacade ==
    /\ nets = << >>
    /\ _thermal_networks = << >>
    /\ boundaries = << >>
    /\ calls = << >>
    /\ last = [op |-> "Icepak", k |-> 0, a |-> << >>, exc |-> "", ret |-> "obj", n |-> 0,
               err |-> FALSE]
    /\ steps = 0
    /\ files = {}
    /\ xml = << >>
    /\ mesh = NoMesh
    /\ design \in [solution_type : {"SteadyState", "Transient"},
                   solve_inside : [ObjectNames -> BOOLEAN]]

\* the arguments the boundary methods are called with
FacesArgs == {List(<<Num("1")>>), List(<<Num("1"), Num("2")>>)}
TempDepPwl == Dict([Type |-> "Temp Dep", Function |-> "Piecewise Linear", Values |-> S("ds1")])
TempDepLinear == Dict([Type |-> "Temp Dep", Function |-> "Linear", Values |-> List(<<"1W", "2">>)])
TransientLinear == Dict([Type |-> "Transient", Function |-> "Linear", Values |-> List(<<"1W", "2">>)])
SourceValueArgs == {Str("1", "W"), TempDepPwl, TempDepLinear, TransientLinear}
BlockPowerArgs == {Num("2"), S("Joule Heating"), TempDepLinear}
BoundaryNameArgs == {None, S("Bound1")}
WallKwArgs ==
    { [htc |-> Num("5")],
      [name |-> S("Bound1"), htc_dataset |-> S("ds1")],
      [ht_correlation |-> Bool(TRUE), ht_correlation_surface |-> S("Top"),
       ht_correlation_amb_temperature |-> Num("20")],
      [ht_correlation |-> Bool(TRUE), ht_correlation_type |-> S("Forced Convection"),
       ht_correlation_free_stream_velocity |-> Num("2")] }

NextFacade ==
    \/ \E air_faces \in FacesArgs, free_loss_coeff \in BOOLEAN, host_ok \in BOOLEAN :
          \E gen \in generate_unique_name("Grille") :
             assign_grille(air_faces, free_loss_coeff, Num("0.5"), gen, host_ok)
    \/ \E air_faces \in FacesArgs, host_ok \in BOOLEAN :
          \E gen \in generate_unique_name("Opening") :
             assign_openings(air_faces, gen, host_ok)
    \/ \E thermal_dependent_dataset \in {None, S("ds1")},
          input_power \in {None, Num("0"), Str("1", "W")},
          source_name \in BoundaryNameArgs, host_ok \in BOOLEAN :
          \E gen \in GenArgs("Source", source_name) :
             create_source_power(Num("1"), thermal_dependent_dataset, input_power,
                                 source_name, gen, host_ok)
    \/ \E assignment \in {Num("1"), S("Box1")},
          thermal_condition \in {S("Total Power"), S("Surface Heat"), S("Temperature")},
          assignment_value \in SourceValueArgs,
          voltage_current_choice \in {Bool(FALSE), S("Current")},
          voltage_current_value \in {Str("1", "A"), TempDepPwl},
          host_ok \in BOOLEAN :
          assign_source(assignment, thermal_condition, assignment_value, S("Bound1"),
                        FALSE, voltage_current_choice, voltage_current_value, "", host_ok)
    \/ \E object_name \in ObjectNames, power_assignment \in BlockPowerArgs,
          boundary_name \in BoundaryNameArgs, htc \in {None, Num("5")},
          ext_temperature \in {S("AmbientTemp"), Num("30"), TransientLinear},
          host_ok \in BOOLEAN :
          \E gen \in GenArgs(object_name \o "_Block", boundary_name) :
             assign_solid_block(object_name, power_assignment, boundary_name, htc,
                                ext_temperature, gen, host_ok)
    \/ \E object_name \in {S("Box1"), List(<<S("Box1")>>)},
          assign_material \in BOOLEAN, use_object_for_name \in BOOLEAN, host_ok \in BOOLEAN :
          \E gen \in (IF use_object_for_name THEN {""} ELSE generate_unique_name("Block")) :
             create_source_block(object_name, Str("1", "W"), assign_material,
                                 S("Ceramic_material"), use_object_for_name, gen, host_ok)
    \/ \E thermal_dependent_dataset \in {None, S("ds1")}, radiate_low \in BOOLEAN,
          bc_name \in BoundaryNameArgs, host_ok \in BOOLEAN :
          \E gen \in GenArgs("Source", bc_name) :
             create_conduting_plate(Num("1"), S("Thickness"), thermal_dependent_dataset,
                                    Str("0", "W"), radiate_low, FALSE, bc_name, gen, host_ok)
    \/ \E map_frequency \in {None, S("1GHz")}, source_project_name \in {None, S("Other")},
          paramlist \in {List(<<S("p1")>>)}, object_list \in {None, List(<<S("Box1")>>)},
          host_ok \in BOOLEAN :
          \E gen \in generate_unique_name("EMLoss") :
             assign_em_losses("HFSSDesign1", "Setup1", "LastAdaptive", map_frequency, None,
                              source_project_name, paramlist, object_list, gen, host_ok)
    \/ \E geometry \in {Num("1"), S("Box1")},
          boundary_condition \in {"Heat Transfer Coefficient"},
          kw \in WallKwArgs, host_ok \in BOOLEAN :
          \E gen \in GenArgs("StationaryWall", WithKw(WallDefaults, kw).name) :
             assign_stationary_wall(geometry, boundary_condition, kw, gen, host_ok)
    \/ \E kw \in {[heat_flux |-> Num("10")], [name |-> S("Bound1"), thickness |-> Num("2")]},
          host_ok \in BOOLEAN :
          \E gen \in GenArgs("StationaryWall", WithKw(WallDefaults, kw).name) :
             assign_stationary_wall_with_heat_flux(Num("1"), kw, gen, host_ok)
    \/ \E kw \in {[temperature |-> Num("30")], [name |-> S("Bound1")]},
          host_ok \in BOOLEAN :
          \E gen \in GenArgs("StationaryWall", WithKw(WallDefaults, kw).name) :
             assign_stationary_wall_with_temperature(Num("1"), kw, gen, host_ok)
    \/ \E kw \in WallKwArgs, host_ok \in BOOLEAN :
          \E gen \in GenArgs("StationaryWall", WithKw(WallDefaults, kw).name) :
             assign_stationary_wall_with_htc(Num("1"), kw, gen, host_ok)
    \/ \E object_name \in ObjectNames,
          assignment_type \in {"Total Power", "Heat Transfer Coefficient", "Power"},
          assignment_value \in {Str("1", "W"), S("Joule Heating"), TransientLinear},
          boundary_name \in {S("Bound1")},
          external_temperature \in {S("AmbientTemp"), TempDepPwl}, host_ok \in BOOLEAN :
          \E gen \in GenArgs(object_name \o "_Block", boundary_name) :
             assign_hollow_block(object_name, assignment_type, assignment_value,
                                 boundary_name, external_temperature, gen, host_ok)

SpecFacade == InitFacade /\ [][NextFacade]_vars

\* the method called last has created its boundary in the host
HostCreated ==
    \E i \in DOMAIN NewCalls : NewCalls[i].call = "AssignBoundary" /\ NewCalls[i].ok

\* the method called last returned None, or raised, before it created a boundary
RejectedCall ==
    /\ last.ret = "None"
    /\ \A i \in DOMAIN NewCalls : NewCalls[i].call # "AssignBoundary"

\* the host did not accept the boundary of the method called last
CreateFailed ==
    \E i \in DOMAIN NewCalls : NewCalls[i].call = "AssignBoundary" /\ ~NewCalls[i].ok

BoundaryMethods ==
    {"assign_grille", "assign_openings", "create_source_block", "create_conduting_plate",
     "create_source_power", "assign_source", "assign_stationary_wall",
     "assign_stationary_wall_with_heat_flux", "assign_stationary_wall_with_temperature",
     "assign_stationary_wall_with_htc", "assign_solid_block", "assign_hollow_block",
     "assign_em_losses"}

\* C11: a boundary method returns the boundary object when its creation in
\* the host succeeded, and None or False, never a boundary object, when the
\* creation in the host failed
C11_ReturnsBoundaryOnlyOnSuccess ==
    last.op \in BoundaryMethods
    => /\ HostCreated => last.ret = "obj"
       /\ CreateFailed => last.ret \in {"None", "False"}

\* C12: create_source_power called with both of input_power and
\* thermal_dependent_dataset, or with neither, creates no boundary in the host
\* and leaves boundaries unchanged
C12_SourcePowerExclusive ==
    [][ (/\ last'.op = "create_source_power"
         /\ IsNone(last'.a.input_power) = IsNone(last'.a.thermal_dependent_dataset))
        => /\ calls' = calls
           /\ boundaries' = boundaries ]_vars

\* a variation dictionary that _parse_variation_data does not accept
InvalidVariation(d) ==
    /\ IsDict(d)
    /\ \/ d.v["Type"] = "Transient" /\ design.solution_type = "SteadyState"
       \/ d.v["Type"] = "Temp Dep" /\ d.v["Function"] # "Piecewise Linear"

\* the arguments of the assign_source called last are not valid
InvalidSource ==
    \/ InvalidVariation(last.a.assignment_value)
    \/ /\ IsStr(last.a.voltage_current_choice)
       /\ PyStr(last.a.voltage_current_choice) \in {"Current", "Voltage"}
       /\ IsDict(last.a.voltage_current_value)
       /\ \/ last.a.voltage_current_value.v["Type"] = "Temp Dep"
          \/ InvalidVariation(last.a.voltage_current_value)

\* the properties props carry the value given for the quantity q: under the
\* key q, or under "q Variation Data" for a dictionary
CarriesValue(props, q, value) ==
    IF IsDict(value)
    THEN /\ q \notin DOMAIN props
         /\ (q \o " Variation Data") \in DOMAIN props
         /\ props[q \o " Variation Data"].v["Variation Type"] = S(value.v["Type"])
         /\ props[q \o " Variation Data"].v["Variation Function"] = S(value.v["Function"])
    ELSE /\ (q \o " Variation Data") \notin DOMAIN props
         /\ q \in DOMAIN props
         /\ props[q] = value

\* C13: assign_source with one of the three thermal conditions submits the
\* value given for the quantity selected and the defaults "0W",
\* "0irrad_W_per_m2" and "AmbientTemp" for the other two; with a variation
\* dictionary that is not valid it returns None and calls the host not at all
C13_SourceQuantities ==
    (/\ last.op = "assign_source"
     /\ PyStr(last.a.thermal_condition) \in {"Total Power", "Surface Heat", "Temperature"})
    => IF InvalidSource
       THEN last.ret = "None" /\ NewCalls = << >>
       ELSE /\ Len(NewCalls) = 1
            /\ NewCalls[1].call = "AssignBoundary"
            /\ \A q \in {"Total Power", "Surface Heat", "Temperature"} :
                  IF q = PyStr(last.a.thermal_condition)
                  THEN CarriesValue(NewCalls[1].args.props, q, last.a.assignment_value)
                  ELSE /\ (q \o " Variation Data") \notin DOMAIN NewCalls[1].args.props
                       /\ NewCalls[1].args.props[q]
                          = (IF q = "Total Power" THEN Str("0", "W")
                             ELSE IF q = "Surface Heat" THEN Str("0", "irrad_W_per_m2")
                             ELSE S("AmbientTemp"))

\* a source whose surface heat is a valid variation dictionary was submitted
C13_Witness_VariationSubmitted ==
    /\ last.op = "assign_source"
    /\ IsText(last.a.thermal_condition, "Surface Heat")
    /\ IsDict(last.a.assignment_value)
    /\ HostCreated

\* ------------------------------------------- the values of nodes and links
AddInternalNodeN1(power, mass, specific_heat) ==
    /\ steps < MaxValueSteps
    /\ AddInternalNode(1, S("A"), power, mass, specific_heat)

AddBoundaryNodeN1(assignment_type, value) ==
    /\ steps < MaxValueSteps
    /\ AddBoundaryNode(1, S("B"), assignment_type, value)

NextUnits ==
    \/ NewNetworkN1
    \/ \E power \in {None, Num("2"), Str("2", "W")}, mass \in {None, Num("2"), Str("2", "kg")},
          specific_heat \in {None, Num("2")} :
          AddInternalNodeN1(power, mass, specific_heat)
    \/ \E assignment_type \in {S("Power"), S("Temperature"), S("Flux")},
          value \in {Num("3"), Str("3", "W"), TempDepPwl, TransientLinear} :
          AddBoundaryNodeN1(assignment_type, value)
    \/ \E thermal_resistance \in ThermalResistanceArgs, material \in MaterialArgs,
          thickness \in ThicknessArgs, resistance \in ResistanceArgs :
          AddFaceNodeN1(thermal_resistance, material, thickness, resistance)
    \/ \E value \in {Num("2"), Str("2", "kg_per_s")} : AddLinkN1(S("A"), S("B"), value)

SpecUnits == Init /\ [][NextUnits]_vars

\* the node added last to the network of the operation called last
LastNode == nets[last.k]._nodes[Len(nets[last.k]._nodes)]

\* what is stored for the input x: a number with the implied unit, a string
\* as it is
Implied(x, unit) == IF IsNum(x) THEN Str(x.v, unit) ELSE x

\* the properties of a node that hold a value with a unit
ValueKeys == {"Power", "Mass", "SpecificHeat", "Temperature", "Thickness", "Resistance"}

\* a stored value that is a bare number, or a unit attached to None
BareOrMissing(v) == IsNum(v) \/ (IsStr(v) /\ v.v = "None" /\ v.u # "")

\* the input x, a number or a string, is stored under key with the implied unit
StoredAs(x, key, unit) ==
    IsNum(x) \/ IsStr(x) => key \in DOMAIN LastNode.props /\ LastNode.props[key] = Implied(x, unit)

\* C14: a number given to the network builder is stored with the implied unit
\* (power W, mass kg, specific heat J_per_Kelkg, boundary value W or cel,
\* thickness mm, resistance cel_per_w, link value cel_per_w) and a string is
\* stored unchanged; no stored value of a node or a link is a bare number or
\* a unit attached to None
C14_ImpliedUnits ==
    /\ last.op = "add_internal_node" /\ last.exc = ""
          => /\ StoredAs(last.a.power, "Power", "W")
             /\ StoredAs(last.a.mass, "Mass", "kg")
             /\ StoredAs(last.a.specific_heat, "SpecificHeat", "J_per_Kelkg")
    /\ last.op = "add_boundary_node" /\ last.exc = ""
          => StoredAs(last.a.value, PyStr(last.a.assignment_type),
                      IF IsText(last.a.assignment_type, "Power") THEN "W" ELSE "cel")
    /\ last.op = "add_face_node" /\ last.exc = "" /\ IsText(last.a.thermal_resistance, "Compute")
          => StoredAs(last.a.thickness, "Thickness", "mm")
    /\ last.op = "add_face_node" /\ last.exc = ""
       /\ IsText(last.a.thermal_resistance, "Specified")
          => StoredAs(last.a.resistance, "Resistance", "cel_per_w")
    /\ last.op = "add_link" /\ (IsNum(last.a.value) \/ last.exc = "")
          => LastLink.value = Implied(last.a.value, "cel_per_w")
    /\ \A k \in DOMAIN nets :
          /\ \A i \in DOMAIN nets[k]._nodes :
                \A key \in DOMAIN nets[k]._nodes[i].props \cap ValueKeys :
                   ~BareOrMissing(nets[k]._nodes[i].props[key])
          /\ \A i \in DOMAIN nets[k]._links : ~BareOrMissing(nets[k]._links[i].value)

\* the properties props carry the value given for the quantity q of a
\* boundary node: with the implied unit, or as the variation data of q
CarriesQuantity(props, q, value) ==
    IF IsDict(value)
    THEN /\ q \notin DOMAIN props
         /\ (q \o " Variation Data") \in DOMAIN props
         /\ props[q \o " Variation Data"].v["Variation Type"] = S(value.v["Type"])
    ELSE /\ q \in DOMAIN props
         /\ props[q] = Implied(value, IF q = "Power" THEN "W" ELSE "cel")

C16_BlockExclusive ==
    /\ last.op = "assign_solid_block"
          => /\ HostCreated => design.solve_inside[last.a.object_name]
             /\ ~design.solve_inside[last.a.object_name]
                   => last.ret = "None" /\ last.exc = "" /\ NewCalls = << >>
    /\ last.op = "assign_hollow_block"
          => /\ HostCreated => ~design.solve_inside[last.a.object_name]
             /\ design.solve_inside[last.a.object_name]
                   => last.ret = "None" /\ last.exc = "" /\ NewCalls = << >>

\* a hollow block was created for an object, and assign_solid_block called
\* after it on the same object returned None
C16_Witness_SolidAfterHollow ==
    /\ Len(boundaries) = 1
    /\ "Block Type" \in DOMAIN boundaries[1].props
    /\ boundaries[1].props["Block Type"] = S("Hollow")
    /\ last.op = "assign_solid_block"
    /\ boundaries[1].props["Objects"] = List(<<S(last.a.object_name)>>)
    /\ last.ret = "None" /\ NewCalls = << >>

\* ------------------------------------------------------ the import of a board
\* a path is a str whose value is the sequence of its characters
Path(chars) == [t |-> "str", v |-> chars, u |-> ""]

\* s.endswith(suffix)
endswith(s, suffix) ==
    /\ Len(s) >= Len(suffix)
    /\ SubSeq(s, Len(s) - Len(suffix) + 1, Len(s)) = suffix

\* s[:-3]
AllButLast3(s) == IF Len(s) <= 3 THEN << >> ELSE SubSeq(s, 1, Len(s) - 3)

\* s.replace("\\", "\\\\")
RECURSIVE EscapeBackslashes(_)
EscapeBackslashes(s) ==
    IF s = << >> THEN << >>
    ELSE (IF Head(s) = "\\" THEN <<"\\", "\\">> ELSE <<Head(s)>>)
         \o EscapeBackslashes(Tail(s))

\* not path
NotPath(path) == IsNone(path) \/ path.v = << >>

\* the library path searched for a board when none is given
LibraryPath(board_path, library_path) ==
    IF ~NotPath(library_path) THEN library_path
    ELSE IF endswith(board_path, <<".", "b", "d", "f">>)
    THEN Path(AllButLast3(board_path) \o <<"l", "d", "f">>)
    ELSE IF endswith(board_path, <<".", "e", "m", "n">>)
    THEN Path(AllButLast3(board_path) \o <<"e", "m", "p">>)
    ELSE library_path

\* the control path: the XML file beside the board when no control path is
\* given and that file exists, and the empty path in every other case
ControlPath(board_path, control_path) ==
    IF NotPath(control_path) /\ (AllButLast3(board_path) \o <<"x", "m", "l">>) \in files
    THEN Path(AllButLast3(board_path) \o <<"x", "m", "l">>)
    ELSE Path(<< >>)

\* the device filters of the import
Filters(filter_cap, filter_ind, filter_res) ==
    (IF filter_cap THEN <<"Cap">> ELSE << >>)
    \o (IF filter_ind THEN <<"Ind">> ELSE << >>)
    \o (IF filter_res THEN <<"Res">> ELSE << >>)

\* the number of boards imported in a run
MaxImports == 2

\* Icepak.import_idf with the height, power, layer, material and component
\* library arguments at their defaults: the settings are sent to the host in
\* one ImportIDF call; library_path.replace raises when the library is None
import_idf(board_path, library_path, control_path, filter_cap, filter_ind, filter_res) ==
    /\ steps < MaxImports
    /\ IF IsNone(LibraryPath(board_path, library_path))
       THEN /\ calls' = calls
            /\ FacadeDone("import_idf", [board_path |-> board_path, library_path |-> library_path, control_path |-> control_path], "AttributeError", "None", FALSE)
       ELSE /\ calls' = Append(calls, HostCall("ImportIDF", 0, "Settings", TRUE,
                                  [Board |-> EscapeBackslashes(board_path),
                                   Library |-> EscapeBackslashes(LibraryPath(board_path, library_path).v),
                                   Control |-> EscapeBackslashes(ControlPath(board_path, control_path).v),
                                   Filters |-> Filters(filter_cap, filter_ind, filter_res)]))
            /\ FacadeDone("import_idf", [board_path |-> board_path, library_path |-> library_path, control_path |-> control_path], "", "True", FALSE)
    /\ UNCHANGED <<nets, _thermal_networks, boundaries, design, files, xml, mesh>>

\* the board files, the library and control files given, the files on disk
BoardPathArgs ==
    { <<"A", ".", "b", "d", "f">>, <<"A", ".", "e", "m", "n">>,
      <<"d", "\\", "A", ".", "b", "d", "f">>, <<"A", ".", "i", "d", "f">> }
LibraryPathArgs == {None, Path(<< >>), Path(<<"d", "\\", "L", ".", "l", "d", "f">>)}
ControlPathArgs == {None, Path(<<"d", "\\", "C", ".", "x", "m", "l">>)}
XmlFiles == { <<"A", ".", "x", "m", "l">>, <<"d", "\\", "A", ".", "x", "m", "l">> }

InitImport ==
    /\ nets = << >>
    /\ _thermal_networks = << >>
    /\ boundaries = << >>
    /\ calls = << >>
    /\ last = [op |-> "Icepak", k |-> 0, a |-> << >>, exc |-> "", ret |-> "obj", n |-> 0,
               err |-> FALSE]
    /\ steps = 0
    /\ files \in SUBSET XmlFiles
    /\ xml = << >>
    /\ mesh = NoMesh
    /\ design = [solution_type |-> "SteadyState", solve_inside |-> [o \in ObjectNames |-> TRUE]]

NextImport ==
    \E board_path \in BoardPathArgs, library_path \in LibraryPathArgs, control_path \in ControlPathArgs :
       \E filter_cap, filter_ind, filter_res \in BOOLEAN :
          import_idf(board_path, library_path, control_path, filter_cap, filter_ind, filter_res)

SpecImport == InitImport /\ [][NextImport]_vars

\* the settings import_idf has sent to the host
ImportSettings == calls[Len(calls)].args

\* the board was imported by the call made last
Imported == last.op = "import_idf" /\ last.exc = "" /\ NewCalls # << >>

\* C17: a control path given to import_idf is the Control setting the host
\* receives; when none is given, Control is the XML file beside the board if
\* that file exists and the empty path otherwise; a library path given is
\* the Library setting, and when none is given Library is the board path
\* with .emn replaced by .emp or .bdf by .ldf
C17_ControlAndLibraryForwarded ==
    Imported
    => /\ ~NotPath(last.a.control_path)
             => ImportSettings.Control = EscapeBackslashes(last.a.control_path.v)
       /\ NotPath(last.a.control_path)
             => ImportSettings.Control =
                   IF (AllButLast3(last.a.board_path) \o <<"x", "m", "l">>) \in files
                   THEN EscapeBackslashes(AllButLast3(last.a.board_path) \o <<"x", "m", "l">>)
                   ELSE << >>
       /\ ~NotPath(last.a.library_path)
             => ImportSettings.Library = EscapeBackslashes(last.a.library_path.v)
       /\ NotPath(last.a.library_path) /\ endswith(last.a.board_path, <<".", "e", "m", "n">>)
             => ImportSettings.Library
                   = EscapeBackslashes(AllButLast3(last.a.board_path) \o <<"e", "m", "p">>)
       /\ NotPath(last.a.library_path) /\ endswith(last.a.board_path, <<".", "b", "d", "f">>)
             => ImportSettings.Library
                   = EscapeBackslashes(AllButLast3(last.a.board_path) \o <<"l", "d", "f">>)

\* --------------------------------------------- the network built from a matrix
\* not node_names
NoNames(node_names) == IsNone(node_names) \/ node_names.v = << >>

\* the internal nodes of create_resistor_network_from_matrix, from the i-th
\* source on (i counts from 0); r holds the network, the exception raised and
\* all_nodes
RECURSIVE SourceNodes(_, _, _, _)
SourceNodes(r, sources_power, node_names, i) ==
    IF r.exc # "" \/ i >= Len(sources_power) THEN r
    ELSE IF ~NoNames(node_names) /\ i >= Len(node_names.v) THEN [r EXCEPT !.exc = "IndexError"]
    ELSE LET node_name == IF NoNames(node_names) THEN S("Source" \o ToString(i))
                          ELSE node_names.v[i + 1]
             a == add_internal_node(r.net, node_name, sources_power[i + 1], None, None)
         IN  SourceNodes([net |-> a.net, exc |-> a.exc,
                          all_nodes |-> Append(r.all_nodes, PyStr(node_name))],
                         sources_power, node_names, i + 1)

\* second.name: the name of the node add_face_node has just appended
SecondName(a) == IF a.exc # "" THEN "" ELSE a.net._nodes[Len(a.net._nodes)].name

\* the face nodes, from the i-th face id on: the name is
\* node_names[i + len(sources_power)]
RECURSIVE FaceNodes(_, _, _, _, _)
FaceNodes(r, faces_ids, node_names, offset, i) ==
    IF r.exc # "" \/ i >= Len(faces_ids) THEN r
    ELSE IF ~NoNames(node_names) /\ i + offset >= Len(node_names.v)
    THEN [r EXCEPT !.exc = "IndexError"]
    ELSE LET node_name == IF NoNames(node_names) THEN None ELSE node_names.v[i + offset + 1]
             second == add_face_node(r.net, faces_ids[i + 1], node_name, None, None, None, None)
         IN  FaceNodes([net |-> second.net, exc |-> second.exc,
                        all_nodes |-> Append(r.all_nodes, SecondName(second))],
                       faces_ids, node_names, offset, i + 1)

\* matrix[i][j] > 0: numbers compare by value; a str and a number do not
\* compare under Python 3 (TypeError), and under IronPython, which follows
\* Python 2, every str is greater than every number
GreaterThanZero(x, is_ironpython) ==
    IF IsNum(x) THEN [exc |-> "", v |-> x.v # "0"]
    ELSE IF is_ironpython THEN [exc |-> "", v |-> TRUE]
    ELSE [exc |-> "TypeError", v |-> FALSE]

\* the link of the matrix entry (i, j), i and j counted from 0
MatrixLink(r, matrix, i, j, is_ironpython) ==
    IF j >= Len(matrix[i + 1]) THEN [r EXCEPT !.exc = "IndexError"]
    ELSE IF GreaterThanZero(matrix[i + 1][j + 1], is_ironpython).exc # ""
    THEN [r EXCEPT !.exc = GreaterThanZero(matrix[i + 1][j + 1], is_ironpython).exc]
    ELSE IF ~GreaterThanZero(matrix[i + 1][j + 1], is_ironpython).v THEN r
    ELSE IF i >= Len(r.all_nodes) \/ j >= Len(r.all_nodes) THEN [r EXCEPT !.exc = "IndexError"]
    ELSE LET a == add_link(r.net, S(r.all_nodes[i + 1]), S(r.all_nodes[j + 1]),
                           matrix[i + 1][j + 1],
                           S("Link_" \o r.all_nodes[i + 1] \o "_" \o r.all_nodes[j + 1]), "")
         IN  [net |-> a.net, exc |-> a.exc, all_nodes |-> r.all_nodes]

\* the two loops over the matrix, from the n-th entry on, row by row; every
\* row is read as long as the first one
RECURSIVE MatrixLinks(_, _, _, _)
MatrixLinks(r, matrix, n, is_ironpython) ==
    IF r.exc # "" \/ matrix = << >> THEN r
    ELSE IF n >= Len(matrix) * Len(matrix[1]) THEN r
    ELSE MatrixLinks(MatrixLink(r, matrix, n \div Len(matrix[1]), n % Len(matrix[1]), is_ironpython),
                     matrix, n + 1, is_ironpython)

\* the network of create_resistor_network_from_matrix before net.create()
MatrixNetwork(r, sources_power, faces_ids, matrix, node_names, is_ironpython) ==
    IF r.exc # "" THEN [net |-> r.net, exc |-> r.exc, all_nodes |-> << >>]
    ELSE MatrixLinks(FaceNodes(SourceNodes([net |-> r.net, exc |-> "", all_nodes |-> << >>],
                                           sources_power, node_names, 0),
                               faces_ids, node_names, Len(sources_power), 0),
                     matrix, 0, is_ironpython)

\* net.create() at the end, when nothing was raised before
MatrixCreate(b, k, log, host_ok) ==
    IF b.exc # "" THEN [net |-> b.net, exc |-> b.exc, calls |-> log]
    ELSE create(b.net, k, log, host_ok)

\* the number of networks built from a matrix in a run
MaxMatrixNets == 1

\* Icepak.create_resistor_network_from_matrix: the network object is
\* registered by create_network_object before its nodes and links are added,
\* so it stays registered when a later line raises
create_resistor_network_from_matrix(sources_power, faces_ids, matrix, network_name, node_names, gen, host_ok, is_ironpython) ==
    /\ steps < MaxMatrixNets
    /\ LET k == Len(nets) + 1
           net == NewNetwork(network_name, EmptyDict, FALSE, gen, k, calls, TRUE)
           r == MatrixCreate(MatrixNetwork(net, sources_power, faces_ids, matrix, node_names,
                                           is_ironpython),
                             k, calls, host_ok)
       IN  /\ nets' = Append(nets, r.net)
           /\ _thermal_networks' = Append(_thermal_networks, k)
           /\ calls' = r.calls
           /\ Done("create_resistor_network_from_matrix", k,
                   [sources_power |-> sources_power, faces_ids |-> faces_ids, matrix |-> matrix,
                    node_names |-> node_names, is_ironpython |-> is_ironpython],
                   r.exc, IF r.exc = "" THEN "obj" ELSE "None")
    /\ UNCHANGED <<boundaries, design, files, xml, mesh>>

\* the sources, the faces, the names and the strictly lower triangular
\* matrices the networks are built from
SourcesPowerArgs == { <<Num("3")>>, <<Num("3"), Str("4", "mW")>> }
MatrixEntryArgs == {Num("0"), Num("1"), Str("2", "w_per_m2kel")}
MatrixArgs(n) ==
    { m \in [1..n -> [1..n -> MatrixEntryArgs]] :
         \A i, j \in 1..n : j >= i => m[i][j] = Num("0") }
NodeNamesArgs(n) ==
    {None, List([i \in 1..n |-> S(<<"A", "B", "C">>[i])])}

NextMatrix ==
    \E sources_power \in SourcesPowerArgs, faces_ids \in { <<Num("1")>> }, network_name \in NetNameArgs :
       \E matrix \in MatrixArgs(Len(sources_power) + Len(faces_ids)), node_names \in NodeNamesArgs(Len(sources_power) + Len(faces_ids)) :
          \E gen \in GenArgs("Network", network_name), host_ok, is_ironpython \in BOOLEAN :
             create_resistor_network_from_matrix(sources_power, faces_ids, matrix, network_name, node_names, gen, host_ok, is_ironpython)

SpecMatrix == Init /\ [][NextMatrix]_vars

\* the nodes the call made last should have built: the sources, then the faces
MatrixNodeNames ==
    [i \in 1..(Len(last.a.sources_power) + Len(last.a.faces_ids)) |->
        IF ~NoNames(last.a.node_names) THEN PyStr(last.a.node_names.v[i])
        ELSE IF i <= Len(last.a.sources_power) THEN "Source" \o ToString(i - 1)
        ELSE "FaceID" \o PyStr(last.a.faces_ids[i - Len(last.a.sources_power)])]

\* the matrix entry carries a link value: a number above zero, or a string
CarriesLink(x) == IsStr(x) \/ x.v # "0"

\* the links of the network between the i-th and the j-th node
LinksBetween(net, i, j) ==
    {l \in DOMAIN net._links :
        /\ net._links[l].node_1 = MatrixNodeNames[i]
        /\ net._links[l].node_2 = MatrixNodeNames[j]}

\* C18: the network built from a matrix holds the internal nodes of
\* sources_power followed by the face nodes of faces_ids, and for every
\* matrix entry (i, j) that carries a link value exactly one link between
\* the i-th and the j-th node, and no other link; a numeric entry gives a
\* link in cel_per_w, and an entry given as a string with a unit is accepted
\* and keeps its unit
C18_NetworkFromMatrix ==
    last.op = "create_resistor_network_from_matrix"
    => /\ last.exc \in {"", "HostError"}
       /\ [i \in DOMAIN nets[last.k]._nodes |-> nets[last.k]._nodes[i].name] = MatrixNodeNames
       /\ \A i \in DOMAIN nets[last.k]._nodes :
             nets[last.k]._nodes[i].node_type
                = IF i <= Len(last.a.sources_power) THEN "InternalNode" ELSE "FaceNode"
       /\ \A i, j \in DOMAIN last.a.matrix :
             /\ Cardinality(LinksBetween(nets[last.k], i, j))
                   = IF CarriesLink(last.a.matrix[i][j]) THEN 1 ELSE 0
             /\ \A l \in LinksBetween(nets[last.k], i, j) :
                   nets[last.k]._links[l].value
                      = IF IsNum(last.a.matrix[i][j])
                        THEN Str(last.a.matrix[i][j].v, "cel_per_w")
                        ELSE last.a.matrix[i][j]
       /\ \A l \in DOMAIN nets[last.k]._links :
             \E i, j \in DOMAIN last.a.matrix : l \in LinksBetween(nets[last.k], i, j)

\* ------------------------------------------------- the pad of a padstack, in XML
\* range(a, b)
PyRange(a, b) == [i \in 1..(b - a) |-> Num(ToString(a + i - 1))]

\* (names) = values: as many values as names, or ValueError
Unpack(names, values) ==
    IF Len(names) # Len(values) THEN [exc |-> "ValueError", v |-> << >>]
    ELSE [exc |-> "", v |-> [i \in DOMAIN names |-> values[i]]]

\* class PadUse: (Regular, Antipad, Thermal) = range(1, 3)
PadUse == Unpack(<<"Regular", "Antipad", "Thermal">>, PyRange(1, 3))

\* PadstackPadDef.__init__: pad_use is PadUse().Regular
PadstackPadDefInit ==
    IF PadUse.exc # "" THEN [exc |-> PadUse.exc, self |-> None]
    ELSE [exc |-> "",
          self |-> [layer_ref |-> S(""), pad_use |-> PadUse.v[1], x |-> Num("0.0"),
                    y |-> Num("0.0"), primitive_ref |-> S("CIRCLE_DEFAULT")]]

\* ET.Element(tag), without attributes and children
Element(tag) == [tag |-> tag, attrib |-> << >>, children |-> << >>]

\* the element write_xml appends, once its set() calls and the two
\* SubElement calls below it are done
PadDefElement(self) ==
    [tag |-> "PadstackPadDef",
     attrib |-> Props(<< <<"layerRef", self.layer_ref>>, <<"padUse", self.pad_use>> >>),
     children |-> << [tag |-> "Location",
                      attrib |-> Props(<< <<"x", self.x>>, <<"y", self.y>> >>),
                      children |-> << >>],
                     [tag |-> "StandardPrimitiveRef",
                      attrib |-> Props(<< <<"id", self.primitive_ref>> >>),
                      children |-> << >>] >>]

\* bool(element) of the parent at index p of xml, 0 for None: an element is
\* true when it has children
ElementTruth(p) == p # 0 /\ Len(xml[p].children) # 0

\* the elements a caller holds, the children one of them has, the calls made
MaxElements == 2
MaxChildren == 2
MaxXmlSteps == 4

XmlDone(op, a, exc, ret) ==
    /\ FacadeDone(op, a, exc, ret, FALSE)
    /\ UNCHANGED <<nets, _thermal_networks, boundaries, calls, design, files, mesh>>

\* ET.Element(tag) called by the caller
NewElement(tag) ==
    /\ steps < MaxXmlSteps /\ Len(xml) < MaxElements
    /\ xml' = Append(xml, Element(tag))
    /\ XmlDone("Element", [tag |-> tag], "", "obj")

\* ET.SubElement(parent, tag) called by the caller on the element at index p
SubElement(p, tag) ==
    /\ steps < MaxXmlSteps /\ p \in DOMAIN xml /\ Len(xml[p].children) < MaxChildren
    /\ xml' = [xml EXCEPT ![p].children = Append(@, Element(tag))]
    /\ XmlDone("SubElement", [parent |-> p, tag |-> tag], "", "obj")

\* PadstackPadDef()
PadstackPadDef ==
    /\ steps < MaxXmlSteps
    /\ xml' = xml
    /\ XmlDone("PadstackPadDef", PadstackPadDefInit.self, PadstackPadDefInit.exc,
               IF PadstackPadDefInit.exc = "" THEN "obj" ELSE "None")

\* PadstackPadDef.write_xml(padstack_def) with the element at index p of xml,
\* or None when p is 0
write_xml(self, p) ==
    /\ steps < MaxXmlSteps /\ p \in 0..Len(xml)
    /\ p # 0 => Len(xml[p].children) < MaxChildren
    /\ xml' = IF ElementTruth(p)
              THEN [xml EXCEPT ![p].children = Append(@, PadDefElement(self))]
              ELSE xml
    /\ XmlDone("write_xml", [self |-> self, padstack_def |-> p], "", "None")

\* the pads: their attributes as the caller has set them
PadDefArgs ==
    [layer_ref : {S(""), S("TOP")}, pad_use : {Num("1"), Num("2")}, x : {Num("0.0")},
     y : {Num("0.0"), Num("1.5")}, primitive_ref : {S("CIRCLE_DEFAULT")}]

NextXml ==
    \/ \E tag \in {"PadStackDef"} : NewElement(tag)
    \/ \E p \in 1..MaxElements, tag \in {"PadstackHoleDef"} : SubElement(p, tag)
    \/ PadstackPadDef
    \/ \E self \in PadDefArgs, p \in 0..MaxElements : write_xml(self, p)

InitXml ==
    /\ InitFacade
    /\ design = [solution_type |-> "SteadyState", solve_inside |-> [o \in ObjectNames |-> TRUE]]

SpecXml == InitXml /\ [][NextXml]_vars

\* the element is a PadstackPadDef of the pad self: its two attributes, one
\* Location child with x and y and one StandardPrimitiveRef child with id
IsPadDefOf(e, self) ==
    /\ e.tag = "PadstackPadDef"
    /\ DOMAIN e.attrib = {"layerRef", "padUse"}
    /\ e.attrib["layerRef"] = self.layer_ref /\ e.attrib["padUse"] = self.pad_use
    /\ Len(e.children) = 2
    /\ e.children[1].tag = "Location"
    /\ DOMAIN e.children[1].attrib = {"x", "y"}
    /\ e.children[1].attrib["x"] = self.x /\ e.children[1].attrib["y"] = self.y
    /\ e.children[2].tag = "StandardPrimitiveRef"
    /\ DOMAIN e.children[2].attrib = {"id"}
    /\ e.children[2].attrib["id"] = self.primitive_ref

working_directory == "wd"
sab_file_pointer == working_directory \o "/" \o project_name \o ".sab"
mesh_file_pointer == working_directory \o "/" \o project_name \o ".msh"
fl_uscript_file_pointer == working_directory \o "/" \o "FLUscript.jou"
transcript_file_pointer == mesh_file_pointer \o ".trn"
MeshFiles == {mesh_file_pointer, sab_file_pointer, fl_uscript_file_pointer, transcript_file_pointer}

\* the files on disk are held with the call that wrote each of them, 0 for a
\* file left by an earlier run: origin[path] is that call
\* a file that is never removed
KeepFile(origin, path) == origin

\* if os.path.exists(path): os.remove(path)
RemoveIfExists(origin, path) == [f \in DOMAIN origin \ {path} |-> origin[f]]

\* the call c writes the file path, new or in place of an older one
WriteFile(origin, path, c) ==
    [f \in DOMAIN origin \cup {path} |-> IF f = path THEN c ELSE origin[f]]

\* the four files left by an earlier run are removed before the export
RemoveStale(origin) ==
    RemoveIfExists(RemoveIfExists(RemoveIfExists(RemoveIfExists(origin, mesh_file_pointer),
                                                 sab_file_pointer),
                                  fl_uscript_file_pointer),
                   transcript_file_pointer)

\* the transcript, the journal and the geometry are removed after the run
RemoveTemporary(origin) ==
    RemoveIfExists(RemoveIfExists(RemoveIfExists(origin, transcript_file_pointer),
                                  fl_uscript_file_pointer),
                   sab_file_pointer)

\* the two asserts on the installation: ANSYS<version>_DIR, else
\* AWP_ROOT<version>, is set, and ANSYS<version>_DIR is set
InstallationFound(environ) ==
    /\ "ANSYS_DIR" \in environ \/ "AWP_ROOT" \in environ
    /\ "ANSYS_DIR" \in environ

\* object_lists, or get_liquid_objects() when it is empty or None
MeshedObjects(object_lists, liquid_objects) ==
    IF object_lists = << >> THEN liquid_objects ELSE object_lists

\* the calls of generate_fluent_mesh in a run
MaxMeshCalls == 2

\* generate_fluent_mesh has raised: the files are left as they are then
MeshRaised(a, exc, origin, log) ==
    /\ files' = DOMAIN origin
    /\ calls' = log
    /\ mesh' = [mesh EXCEPT !.call = @ + 1, !.origin = origin]
    /\ FacadeDone("generate_fluent_mesh", a, exc, "None", FALSE)

\* the files once the geometry is exported and the journal is written
Prepared(origin, c) ==
    WriteFile(WriteFile(RemoveStale(origin), sab_file_pointer, c), fl_uscript_file_pointer, c)

\* generate_fluent_mesh up to subprocess.call: the asserts, the removal of
\* the files of an earlier run, the export of the geometry, the journal, and
\* the start of the mesher, which the call then waits for
generate_fluent_mesh(object_lists, liquid_objects, environ, export_ok, started) ==
    /\ mesh.pc = "idle" /\ mesh.call < MaxMeshCalls
    /\ IF ~InstallationFound(environ) \/ MeshedObjects(object_lists, liquid_objects) = << >>
       THEN MeshRaised([object_lists |-> object_lists], "AssertionError", mesh.origin, calls)
       ELSE IF ~export_ok
       THEN MeshRaised([object_lists |-> object_lists], "AssertionError", RemoveStale(mesh.origin),
                       Append(calls, HostCall("export_3d_model", 0, sab_file_pointer, FALSE,
                                              MeshedObjects(object_lists, liquid_objects))))
       ELSE IF ~started
       THEN MeshRaised([object_lists |-> object_lists], "OSError",
                       Prepared(mesh.origin, mesh.call + 1),
                       Append(calls, HostCall("export_3d_model", 0, sab_file_pointer, TRUE,
                                              MeshedObjects(object_lists, liquid_objects))))
       ELSE /\ files' = DOMAIN Prepared(mesh.origin, mesh.call + 1)
            /\ calls' = Append(calls, HostCall("export_3d_model", 0, sab_file_pointer, TRUE,
                                               MeshedObjects(object_lists, liquid_objects)))
            /\ mesh' = [mesh EXCEPT !.pc = "meshing", !.call = @ + 1,
                                    !.origin = Prepared(@, mesh.call + 1)]
            /\ FacadeDone("subprocess.call",
                          [object_lists |-> MeshedObjects(object_lists, liquid_objects)],
                          "", "None", FALSE)
    /\ UNCHANGED <<nets, _thermal_networks, boundaries, design, xml>>

\* the mesher, running the journal, writes the transcript or the mesh
MesherWrites(path) ==
    /\ mesh.pc = "meshing"
    /\ IF path \in DOMAIN mesh.origin THEN mesh.origin[path] # mesh.call ELSE TRUE
    /\ files' = files \cup {path}
    /\ mesh' = [mesh EXCEPT !.origin = WriteFile(@, path, mesh.call)]
    /\ UNCHANGED <<nets, _thermal_networks, boundaries, calls, last, steps, design, xml>>

\* the mesher exits, with or without a mesh written
MesherExits ==
    /\ mesh.pc = "meshing"
    /\ mesh' = [mesh EXCEPT !.pc = "exited"]
    /\ UNCHANGED <<nets, _thermal_networks, boundaries, calls, last, steps, design, files, xml>>

\* generate_fluent_mesh after subprocess.call has returned: the temporary
\* files are removed, and the mesh file, if there is one, is assigned
MeshAssigned(assign_ok) ==
    /\ mesh.pc = "exited"
    /\ files' = DOMAIN RemoveTemporary(mesh.origin)
    /\ IF mesh_file_pointer \in DOMAIN RemoveTemporary(mesh.origin)
       THEN /\ calls' = Append(calls, HostCall("assign_mesh_from_file", 0, mesh_file_pointer,
                                               assign_ok, last.a.object_lists))
            /\ mesh' = [mesh EXCEPT !.pc = "idle", !.origin = RemoveTemporary(@),
                                    !.assigned = Append(@, [file |-> mesh_file_pointer,
                                                            written |-> mesh.origin[mesh_file_pointer],
                                                            call |-> mesh.call])]
            /\ FacadeDone("generate_fluent_mesh", last.a, "",
                          IF assign_ok THEN "obj" ELSE "False", FALSE)
       ELSE /\ calls' = calls
            /\ mesh' = [mesh EXCEPT !.pc = "idle", !.origin = RemoveTemporary(@)]
            /\ FacadeDone("generate_fluent_mesh", last.a, "", "False", TRUE)
    /\ UNCHANGED <<nets, _thermal_networks, boundaries, design, xml>>

\* the files an earlier run has left are any of the four
InitMesh ==
    /\ nets = << >>
    /\ _thermal_networks = << >>
    /\ boundaries = << >>
    /\ calls = << >>
    /\ last = [op |-> "Icepak", k |-> 0, a |-> << >>, exc |-> "", ret |-> "obj", n |-> 0,
               err |-> FALSE]
    /\ steps = 0
    /\ files \in SUBSET MeshFiles
    /\ xml = << >>
    /\ mesh = [NoMesh EXCEPT !.origin = [f \in files |-> 0]]
    /\ design = [solution_type |-> "SteadyState", solve_inside |-> [o \in ObjectNames |-> TRUE]]

NextMesh ==
    \/ \E object_lists \in {<< >>, <<"Box1">>}, liquid_objects \in {<< >>, <<"Region">>} :
          \E environ \in SUBSET {"ANSYS_DIR", "AWP_ROOT"}, export_ok, started \in BOOLEAN :
             generate_fluent_mesh(object_lists, liquid_objects, environ, export_ok, started)
    \/ \E path \in {transcript_file_pointer, mesh_file_pointer} : MesherWrites(path)
    \/ MesherExits
    \/ \E assign_ok \in BOOLEAN : MeshAssigned(assign_ok)

SpecMesh == InitMesh /\ [][NextMesh]_vars

\* a call of generate_fluent_mesh has just returned
MeshReturns == mesh.pc # "idle" /\ mesh'.pc = "idle"

\* C20: while the mesher runs, every one of the four files on disk was written
\* by the call that started it (what an earlier run left was removed first);
\* the call goes on only once the mesher has exited; when it returns, the
\* geometry, the journal and the transcript are gone, a mesh is assigned only
\* if the mesh file was written by the mesher run of this call, and without
\* a mesh file the call returns False and assigns nothing
C20_MeshOfThisRun ==
    /\ [](mesh.pc = "meshing"
             => \A f \in files \cap MeshFiles : mesh.origin[f] = mesh.call)
    /\ [][MeshReturns
             => /\ mesh.pc = "exited"
                /\ files' \cap {sab_file_pointer, fl_uscript_file_pointer, transcript_file_pointer} = {}
                /\ last'.op = "generate_fluent_mesh" /\ last'.exc = ""
                /\ IF mesh_file_pointer \in files
                   THEN /\ mesh.origin[mesh_file_pointer] = mesh.call
                        /\ Len(calls') = Len(calls) + 1
                        /\ calls'[Len(calls')].call = "assign_mesh_from_file"
                        /\ calls'[Len(calls')].name = mesh_file_pointer
                   ELSE /\ last'.ret = "False"
                        /\ calls' = calls
                        /\ mesh'.assigned = mesh.assigned]_vars
    /\ [][mesh'.assigned # mesh.assigned
             => mesh.pc = "exited" /\ mesh.origin[mesh_file_pointer] = mesh.call]_vars

\* the second call returns False without a mesh, after the first call had its
\* mesh assigned: the mesh file the first run left was removed, not assigned
C20_Witness_StaleMeshRemoved ==
    /\ mesh.call = 2 /\ mesh.pc = "idle"
    /\ last.op = "generate_fluent_mesh" /\ last.exc = "" /\ last.ret = "False" /\ last.err
    /\ Len(mesh.assigned) = 1 /\ mesh.assigned[1].call = 1
    /\ mesh_file_pointer \notin files

\* ------------------------------------------------------------ claims C21 on
\* C21: assign_stationary_wall_with_htc submits the properties that
\* assign_stationary_wall builds for the boundary condition "Heat Transfer
\* Coefficient" from the same arguments, each under its own name: "Surface"
\* is ht_correlation_surface and "Ambient Temperature" is
\* ht_correlation_amb_temperature
C21_HtcWrapperEquivalent ==
    last.op = "assign_stationary_wall_with_htc"
    => /\ NewCalls # << >>
       /\ NewCalls[Len(NewCalls)].args.props
             = WallProps(last.a.geometry, "Heat Transfer Coefficient",
                         WithKw(WallDefaults, last.a.kw))

\* ------------------------------------------------------------------ gravity
\* list[i] of Python, i counted from 0 and, when negative, from the end
PyIndex(list, i) ==
    IF i >= 0 /\ i < Len(list) THEN [exc |-> "", v |-> list[i + 1]]
    ELSE IF i < 0 /\ -i <= Len(list) THEN [exc |-> "", v |-> list[Len(list) + i + 1]]
    ELSE [exc |-> "IndexError", v |-> ""]

\* a gravity axis that does not depend on the direction
GravityAxisFirst(axes, gravityDir) == PyIndex(axes, 0)

\* axes[int(gravityDir) - 3]
GravityAxis(axes, gravityDir) == PyIndex(axes, gravityDir - 3)

\* GVPos: False, and True if int(gravityDir) > 2
GVPos(gravityDir) == gravityDir > 2

\* the gravity entries of the design settings sent with SetDesignSettings
GravitySettings(gravityDir, ambient) ==
    [AmbientTemperature |-> ambient,
     Axis |-> GravityAxis(<<"X", "Y", "Z">>, gravityDir).v,
     Positive |-> GVPos(gravityDir)]

\* the design settings are sent, or reading the axis raised
SettingsSent(op, gravityDir, ambient) ==
    /\ IF GravityAxis(<<"X", "Y", "Z">>, gravityDir).exc # ""
       THEN /\ calls' = calls
            /\ FacadeDone(op, [gravityDir |-> gravityDir], "IndexError", "None", FALSE)
       ELSE /\ calls' = Append(calls, HostCall("SetDesignSettings", 0, "Design Settings Data",
                                               TRUE, GravitySettings(gravityDir, ambient)))
            /\ FacadeDone(op, [gravityDir |-> gravityDir], "", "True", FALSE)
    /\ UNCHANGED <<nets, _thermal_networks, boundaries, design, files, xml, mesh>>

\* the calls of the gravity methods in a run
MaxGravitySteps == 2

\* Icepak.edit_design_settings: the ambient temperature is str(ambtemp) + "cel"
edit_design_settings(gravityDir, ambtemp) ==
    /\ steps < MaxGravitySteps
    /\ SettingsSent("edit_design_settings", gravityDir, PlusUnit(ambtemp, "cel"))

\* Icepak.apply_icepak_settings: the ambient temperature gets its unit from
\* the modeler
apply_icepak_settings(ambienttemp, gravityDir) ==
    /\ steps < MaxGravitySteps
    /\ SettingsSent("apply_icepak_settings", gravityDir, Formatted(ambienttemp, "cel"))

\* the six padding changes of find_top, from the i-th direction on
RECURSIVE PaddingCalls(_, _)
PaddingCalls(dirs, i) ==
    IF i > Len(dirs) THEN << >>
    ELSE <<HostCall("ChangeProperty", 0, dirs[i] \o " Padding Data", TRUE, "0")>>
         \o PaddingCalls(dirs, i + 1)

\* find_top, the coordinate returned of the bounding box
\* [xmin, ymin, zmin, xmax, ymax, zmax] the modeler gives
TopOf(oBoundingBox, gravityDir) ==
    IF gravityDir < 3 THEN PyIndex(oBoundingBox, gravityDir + 3)
    ELSE PyIndex(oBoundingBox, gravityDir - 3)

\* Icepak.find_top(gravityDir), the modeler giving oBoundingBox
find_top(gravityDir, oBoundingBox) ==
    /\ steps < MaxGravitySteps
    /\ calls' = calls \o PaddingCalls(<<"-X", "+X", "-Y", "+Y", "-Z", "+Z">>, 1)
    /\ FacadeDone("find_top", [gravityDir |-> gravityDir, oBoundingBox |-> oBoundingBox],
                  TopOf(oBoundingBox, gravityDir).exc, TopOf(oBoundingBox, gravityDir).v, FALSE)
    /\ UNCHANGED <<nets, _thermal_networks, boundaries, design, files, xml, mesh>>

\* the gravity directions, the ambient temperatures and the bounding boxes
GravityDirArgs == 0..5
AmbientArgs == {Num("20"), Num("25")}
BoundingBoxArgs == { <<0, 0, 0, 1, 2, 3>>, <<-1, -2, -3, 4, 5, 6>> }

NextGravity ==
    \/ \E gravityDir \in GravityDirArgs, ambtemp \in AmbientArgs :
          edit_design_settings(gravityDir, ambtemp)
    \/ \E gravityDir \in GravityDirArgs, ambienttemp \in AmbientArgs :
          apply_icepak_settings(ambienttemp, gravityDir)
    \/ \E gravityDir \in GravityDirArgs, oBoundingBox \in BoundingBoxArgs :
          find_top(gravityDir, oBoundingBox)

SpecGravity == InitXml /\ [][NextGravity]_vars

\* C22: for every gravity direction g in 0..5, edit_design_settings and
\* apply_icepak_settings send the axis X, Y, Z for g mod 3 = 0, 1, 2 and
\* Positive true exactly when g >= 3, and find_top returns the coordinate of
\* the bounding box on that axis, the maximum for g < 3 and the minimum for
\* g >= 3
C22_GravityDirection ==
    /\ last.op \in {"edit_design_settings", "apply_icepak_settings"}
          => /\ last.exc = "" /\ Len(NewCalls) = 1
             /\ NewCalls[1].call = "SetDesignSettings"
             /\ NewCalls[1].args.Axis = <<"X", "Y", "Z">>[(last.a.gravityDir % 3) + 1]
             /\ NewCalls[1].args.Positive = (last.a.gravityDir >= 3)
    /\ last.op = "find_top"
          => /\ last.exc = ""
             /\ last.ret = IF last.a.gravityDir < 3
                           THEN last.a.oBoundingBox[(last.a.gravityDir % 3) + 4]
                           ELSE last.a.oBoundingBox[(last.a.gravityDir % 3) + 1]

\* gravity along +Y was set with both methods, one after the other
C22_Witness_PlusY ==
    /\ Len(calls) = 2
    /\ last.op = "apply_icepak_settings" /\ last.a.gravityDir = 4
    /\ calls[1].call = "SetDesignSettings" /\ calls[1].args.Axis = "Y"
    /\ calls[1].args.Positive /\ calls[2].args.Axis = "Y" /\ calls[2].args.Positive


\* ------------------------------------------ the design at construction
\* the boundaries the design holds when Icepak is constructed on it, as the
\* base class has loaded them into boundaries
NetworkProps ==
    [Nodes |-> << <<"A", [NodeType |-> S("InternalNode"), Power |-> Str("1", "W")]>> >>]
FoundBoundaries ==
    { BoundaryObject("N1", NetworkProps, "Network"),
      BoundaryObject("N2", NetworkProps, "Network"),
      BoundaryObject("B1", EmptyDict, "Opening") }
MaxFound == 3
FoundArgs == UNION {[1..n -> FoundBoundaries] : n \in 0..MaxFound}

\* whether two boundaries of the sequence share a name: the host keeps them distinct
DistinctNames(bounds) ==
    \A i, j \in DOMAIN bounds : bounds[i].name = bounds[j].name => i = j

\* Icepak.__init__, the loop "for bound in self.boundaries": the iterator holds
\* a position in the list, and boundaries.remove(bound) shortens the list under it
RECURSIVE MoveNetworks(_, _, _, _)
MoveNetworksNext(bounds, i, moved, r) ==
    IF r.exc # "" THEN [boundaries |-> bounds, networks |-> moved, exc |-> r.exc]
    ELSE MoveNetworks(RemoveAt(bounds, i), i + 1, Append(moved, r.net), "")

MoveNetworks(bounds, i, moved, exc) ==
    IF i > Len(bounds) THEN [boundaries |-> bounds, networks |-> moved, exc |-> exc]
    ELSE IF bounds[i].type = "Network"
    THEN MoveNetworksNext(bounds, i, moved,
                          NewNetwork(S(bounds[i].name), bounds[i].props, FALSE, "",
                                     Len(moved) + 1, << >>, TRUE))
    ELSE MoveNetworks(bounds, i + 1, moved, exc)

\* Icepak.__init__ on the design: the base class has loaded boundaries
Icepak__init__ ==
    /\ steps < MaxSteps /\ last.op = "FieldAnalysis3D"
    /\ LET r == MoveNetworks(boundaries, 1, << >>, "")
       IN /\ nets' = r.networks
          /\ _thermal_networks' = [i \in DOMAIN r.networks |-> i]
          /\ boundaries' = r.boundaries
          /\ FacadeDone("Icepak", << >>, r.exc, IF r.exc = "" THEN "obj" ELSE "None", FALSE)
    /\ UNCHANGED <<calls, design, files, xml, mesh>>

\* BoundaryNetwork.name, the setter
SetNameOf(net, k, new_network_name, bounds, log) ==
    LET bound_names == {bounds[i].name : i \in DOMAIN bounds}
    IN IF net.name \in bound_names
       THEN IF new_network_name \notin bound_names
            THEN IF new_network_name # net.name
                 THEN [net |-> [net EXCEPT !.name = new_network_name],
                       calls |-> Append(log, HostCall("RenameBoundary", k, net.name, TRUE,
                                                      <<net.name, new_network_name>>)),
                       err |-> FALSE]
                 ELSE [net |-> net, calls |-> log, err |-> FALSE]
            ELSE [net |-> net, calls |-> log, err |-> TRUE]
       ELSE [net |-> [net EXCEPT !.name = new_network_name], calls |-> log, err |-> FALSE]

SetName(k, new_network_name) ==
    /\ steps < MaxSteps /\ last.op # "FieldAnalysis3D" /\ k \in DOMAIN nets
    /\ LET r == SetNameOf(nets[k], k, new_network_name, boundaries, calls)
       IN /\ nets' = [nets EXCEPT ![k] = r.net]
          /\ calls' = r.calls
          /\ last' = [op |-> "name.setter", k |-> k, a |-> [name |-> new_network_name],
                      exc |-> "", ret |-> "None", n |-> Len(calls), err |-> r.err]
          /\ steps' = steps + 1
    /\ UNCHANGED <<_thermal_networks, boundaries, design, files, xml, mesh>>

\* create_network_object on the constructed application
NewNetworkN3(do_create, host_ok) ==
    /\ last.op # "FieldAnalysis3D"
    /\ create_network_object(S("N3"), do_create, "", host_ok)

NewNameArgs == {"N1", "B1", "N4"}

InitDesign ==
    /\ nets = << >>
    /\ _thermal_networks = << >>
    /\ boundaries \in {b \in FoundArgs : DistinctNames(b)}
    /\ calls = << >>
    /\ last = [op |-> "FieldAnalysis3D", k |-> 0, a |-> << >>, exc |-> "", ret |-> "obj",
               n |-> 0, err |-> FALSE]
    /\ steps = 0
    /\ files = {}
    /\ xml = << >>
    /\ mesh = NoMesh
    /\ design = [solution_type |-> "SteadyState", solve_inside |-> [o \in ObjectNames |-> TRUE],
                 boundaries |-> boundaries]

NextDesign ==
    \/ Icepak__init__
    \/ \E do_create \in BOOLEAN : \E host_ok \in HostArgs(do_create) : NewNetworkN3(do_create, host_ok)
    \/ \E k \in 1..MaxNets, new_network_name \in NewNameArgs : SetName(k, new_network_name)
SpecDesign == InitDesign /\ [][NextDesign]_vars

\* the networks the constructor found in the design
FoundNetworks == Len(MoveNetworks(design.boundaries, 1, << >>, "").networks)

\* network k exists in the host design: it was found there at construction, or
\* the host accepted its assignment
InDesign(k) ==
    \/ k <= FoundNetworks
    \/ \E i \in DOMAIN calls :
          calls[i].call = "AssignNetworkBoundary" /\ calls[i].net = k /\ calls[i].ok

\* C23: setting a network's name to a name a boundary of the design has leaves
\* the name unchanged and issues no RenameBoundary call; setting it to a free
\* name issues exactly one RenameBoundary call when the network exists in the
\* design and none otherwise
C23_NameSetter ==
    [][last'.op = "name.setter"
       => LET k == last'.k
              new == last'.a.name
              taken == \E i \in DOMAIN boundaries : boundaries[i].name = new
          IN IF taken
             THEN nets'[k].name = nets[k].name /\ calls' = calls
             ELSE new # nets[k].name
                  => IF InDesign(k)
                     THEN /\ Len(calls') = Len(calls) + 1
                          /\ calls'[Len(calls')].call = "RenameBoundary"
                          /\ SubSeq(calls', 1, Len(calls)) = calls
                     ELSE calls' = calls]_vars


\* the boundaries of the sequence that are of type "Network"
NetworksOf(bounds) == {i \in DOMAIN bounds : bounds[i].type = "Network"}

\* C26: the construction of Icepak on a design moves every boundary of type
\* "Network" out of boundaries into the thermal networks and removes no
\* boundary of another type: boundaries holds no "Network" boundary afterwards
\* and thermal_networks has one entry per "Network" boundary found
C26_ConstructorMovesNetworks ==
    [][last.op = "FieldAnalysis3D" /\ last'.op = "Icepak"
       => /\ NetworksOf(boundaries') = {}
          /\ \A i \in DOMAIN boundaries \ NetworksOf(boundaries) :
                \E j \in DOMAIN boundaries' : boundaries'[j] = boundaries[i]
          /\ Len(_thermal_networks') = Cardinality(NetworksOf(boundaries))
          /\ \A i \in NetworksOf(boundaries) :
                \E j \in DOMAIN _thermal_networks' :
                   nets'[_thermal_networks'[j]].name = boundaries[i].name]_vars


\* the keys of props[type_dict], none when the entry is missing
PropsKeys(net, type_dict) ==
    IF type_dict \in DOMAIN net.props THEN DictKeys(net.props[type_dict]) ELSE {}

\* the staged objects of the sequence and props[type_dict] agree in names and in count
Agree(net, staged, type_dict) ==
    /\ {staged[i].name : i \in DOMAIN staged} = PropsKeys(net, type_dict)
    /\ Len(staged) = Cardinality(PropsKeys(net, type_dict))

\* C24: after any sequence of add_* operations, delete_node and delete_link the
\* names of the nodes in _nodes are exactly the keys of props["Nodes"], with the
\* same count, and the names of the links in _links are exactly the keys of
\* props["Links"], with the same count
C24_StagedAgreesWithProps ==
    \A k \in DOMAIN nets :
       /\ Agree(nets[k], nets[k]._nodes, "Nodes")
       /\ Agree(nets[k], nets[k]._links, "Links")


\* ------------------------------------------- face nodes and submissions
\* the application after create_network_object("N1"): one registered network
\* that was not submitted yet
InitFaces ==
    /\ nets = <<NewNetwork(S("N1"), EmptyDict, FALSE, "", 1, << >>, TRUE).net>>
    /\ _thermal_networks = <<1>>
    /\ boundaries = << >>
    /\ calls = << >>
    /\ last = [op |-> "create_network_object", k |-> 1,
               a |-> [name |-> S("N1"), create |-> FALSE], exc |-> "", ret |-> "obj", n |-> 0]
    /\ steps = 0
    /\ files = {}
    /\ xml = << >>
    /\ mesh = NoMesh
    /\ design = [solution_type |-> "SteadyState", solve_inside |-> [o \in ObjectNames |-> TRUE]]

FaceIdsOfDesign == {Num("1"), Num("2")}

NextFaces ==
    \/ \E face_id \in FaceIdsOfDesign : AddFaceNode(1, face_id, None, None, None, None, None)
    \/ \E i \in 1..MaxSteps : DeleteNode(1, i)
    \/ \E host_ok \in BOOLEAN : Create(1, host_ok)
    \/ \E host_ok \in BOOLEAN : Update(1, host_ok)

SpecFaces == InitFaces /\ [][NextFaces]_vars

\* C25: at every submission to the host, by create() or by the create that
\* update() performs, the submitted "Faces" list equals the face ids of the
\* face nodes the network holds at that moment
C25_SubmittedFaces ==
    last.op \in {"create", "update"}
    => \A i \in (last.n + 1)..Len(calls) :
          calls[i].call = "AssignNetworkBoundary"
          => /\ "Faces" \in DOMAIN calls[i].args
             /\ calls[i].args["Faces"] = FaceIds(nets[last.k]._nodes)

====
